---- MODULE Spec2Model ----
(***************************************************************************)
(* Podcast-RSS-API: the SSRF guard and the safe fetcher of                 *)
(* src/routes/api/podcast.js.                                              *)
(*                                                                         *)
(* Host names, IP literals and DNS answers are JavaScript strings in the   *)
(* source and are strings here; the string functions the source calls      *)
(* (split, parseInt, startsWith, endsWith, toLowerCase, replace, net.isIP)  *)
(* are computed character by character.                                    *)
(***************************************************************************)
EXTENDS Integers, Sequences, FiniteSets, TLC

(***************************************************************************)
(* JavaScript string primitives.                                           *)
(***************************************************************************)
CharAt(s, i) == SubSeq(s, i, i)

Min(a, b) == IF a < b THEN a ELSE b

\* The value of a one-element set: binds an intermediate result once.
Val(S) == CHOOSE v \in S : TRUE

StartsWith(s, p) == Len(s) >= Len(p) /\ SubSeq(s, 1, Len(p)) = p

EndsWith(s, p) == Len(s) >= Len(p) /\ SubSeq(s, Len(s) - Len(p) + 1, Len(s)) = p

\* The first position >= from at which pat occurs in s, 0 when there is none.
IndexFrom(s, pat, from) ==
  Val({Val({Val({IF hits = {} THEN 0 ELSE CHOOSE i \in hits : \A j \in hits : i <= j
                 : hits \in {IF near # {} THEN near
                             ELSE {i \in (from + 16)..last : SubSeq(s, i, i + Len(pat) - 1) = pat}}})
            : near \in {{i \in from..Min(from + 15, last) : SubSeq(s, i, i + Len(pat) - 1) = pat}}})
       : last \in {Len(s) - Len(pat) + 1}})

\* String.prototype.indexOf: the first position of pat in s, 0 when absent.
IndexOf(s, pat) == IndexFrom(s, pat, 1)

\* String.prototype.replace with a string pattern: the first occurrence only.
ReplaceFirst(s, pat, rep) ==
  LET i == IndexOf(s, pat)
  IN  IF i = 0 THEN s
      ELSE SubSeq(s, 1, i - 1) \o rep \o SubSeq(s, i + Len(pat), Len(s))

RECURSIVE SplitFrom(_, _, _)
\* The parts of s from position from on.
SplitFrom(s, sep, from) ==
  LET i == IndexFrom(s, sep, from)
  IN  IF i = 0 THEN <<SubSeq(s, from, Len(s))>>
      ELSE <<SubSeq(s, from, i - 1)>> \o SplitFrom(s, sep, i + 1)

\* String.prototype.split with a one-character separator.
Split(s, sep) == SplitFrom(s, sep, 1)

UpperAlpha == "ABCDEFGHIJKLMNOPQRSTUVWXYZ"
LowerAlpha == "abcdefghijklmnopqrstuvwxyz"

\* The characters of a text, as a set.
CharsOf(s) == {CharAt(s, k) : k \in 1..Len(s)}
UpperLetters == CharsOf(UpperAlpha)
LowerLetters == CharsOf(LowerAlpha)

\* The lower-case form of one character.
LowerChar(c) ==
  IF c \in UpperLetters THEN CharAt(LowerAlpha, IndexOf(UpperAlpha, c)) ELSE c

RECURSIVE LowerRange(_, _, _)
\* The lower-case form of the characters of s from position lo to position hi.
LowerRange(s, lo, hi) ==
  IF lo > hi THEN ""
  ELSE IF lo = hi THEN LowerChar(CharAt(s, lo))
  ELSE LowerRange(s, lo, (lo + hi) \div 2) \o LowerRange(s, (lo + hi) \div 2 + 1, hi)

\* String.prototype.toLowerCase.
toLowerCase(s) == Val({LowerRange(text, 1, Len(text)) : text \in {s}})

DecDigits == <<"0", "1", "2", "3", "4", "5", "6", "7", "8", "9">>

IsDigit(c) == \E k \in 1..Len(DecDigits) : DecDigits[k] = c

DigitVal(c) == (CHOOSE k \in 1..Len(DecDigits) : DecDigits[k] = c) - 1

IsHexDigit(c) == IsDigit(c) \/ IndexOf("abcdefABCDEF", c) # 0

\* NaN of Number.parseInt
NaN == -1

RECURSIVE ParseDigits(_, _, _)
\* The value of the digits of s from position i on, after the value acc.
ParseDigits(s, i, acc) ==
  IF i > Len(s) \/ ~IsDigit(CharAt(s, i)) THEN acc
  ELSE ParseDigits(s, i + 1, acc * 10 + DigitVal(CharAt(s, i)))

\* Number.parseInt(part, 10) on an unsigned part: the value of the leading
\* digits, NaN when the part does not start with a digit.
parseInt(s) ==
  IF s = "" \/ ~IsDigit(CharAt(s, 1)) THEN NaN ELSE ParseDigits(s, 1, 0)

RECURSIVE DecStr(_)
\* Number.prototype.toString(10) of a natural number.
DecStr(n) ==
  IF n < 10 THEN DecDigits[n + 1] ELSE DecStr(n \div 10) \o DecDigits[(n % 10) + 1]

HexDigits == DecDigits \o <<"a", "b", "c", "d", "e", "f">>

RECURSIVE HexStr(_)
\* The lower-case hexadecimal text of a 16-bit group, without leading zeros.
HexStr(n) ==
  IF n < 16 THEN HexDigits[n + 1] ELSE HexStr(n \div 16) \o HexDigits[(n % 16) + 1]

(***************************************************************************)
(* net.isIP: 4 for a dotted quad, 6 for an IPv6 text, 0 otherwise.          *)
(***************************************************************************)
\* One segment of a dotted quad: one to three digits, no leading zero, <= 255.
IsV4Seg(p) ==
  /\ Len(p) \in 1..3
  /\ \A i \in 1..Len(p) : IsDigit(CharAt(p, i))
  /\ (Len(p) > 1 => CharAt(p, 1) # "0")
  /\ parseInt(p) <= 255

isIPv4(s) ==
  LET parts == Split(s, ".")
  IN  Len(parts) = 4 /\ \A i \in 1..4 : IsV4Seg(parts[i])

IsV6Group(p) == Len(p) \in 1..4 /\ \A i \in 1..Len(p) : IsHexDigit(CharAt(p, i))

\* The groups of one side of "::" (or of the whole text): 16-bit hex groups,
\* the last of which may be a dotted quad standing for two groups when
\* allowV4. The result is the number of 16-bit groups, -1 when malformed.
V6Groups(side, allowV4) ==
  IF side = "" THEN 0
  ELSE LET gs == Split(side, ":")
           n == Len(gs)
           v4 == allowV4 /\ isIPv4(gs[n])
           hexOk == \A i \in 1..(IF v4 THEN n - 1 ELSE n) : IsV6Group(gs[i])
       IN  IF hexOk THEN (IF v4 THEN n + 1 ELSE n) ELSE -1

isIPv6(s) ==
  LET i == IndexOf(s, "::")
  IN  IF i = 0 THEN V6Groups(s, TRUE) = 8
      ELSE LET left == SubSeq(s, 1, i - 1)
               right == SubSeq(s, i + 2, Len(s))
               nl == V6Groups(left, FALSE)
               nr == V6Groups(right, TRUE)
           IN  /\ IndexOf(right, "::") = 0
               /\ nl >= 0 /\ nr >= 0 /\ nl + nr <= 7

isIP(s) == IF isIPv4(s) THEN 4 ELSE IF isIPv6(s) THEN 6 ELSE 0

(***************************************************************************)
(* The SSRF guard.                                                         *)
(***************************************************************************)
\* isPrivateIp4 with the upper edge of 172.16.0.0/12 off by one.
isPrivateIp4_WideEdge(ip) ==
  LET parts == Split(ip, ".")
      a == parseInt(parts[1])
      b == parseInt(parts[2])
  IN  \/ a = 10
      \/ a = 127
      \/ a = 0
      \/ (a = 169 /\ b = 254)
      \/ (a = 172 /\ b >= 16 /\ b <= 32)
      \/ (a = 192 /\ b = 168)
      \/ (a = 100 /\ b >= 64 /\ b <= 127)

\* The IPv4 branch of isPrivateIp: [a, b] = ip.split(".").map(parseInt).
isPrivateIp4(ip) ==
  LET parts == Split(ip, ".")
      a == parseInt(parts[1])
      b == parseInt(parts[2])
  IN  \/ a = 10
      \/ a = 127
      \/ a = 0
      \/ (a = 169 /\ b = 254)
      \/ (a = 172 /\ b >= 16 /\ b <= 31)
      \/ (a = 192 /\ b = 168)
      \/ (a = 100 /\ b >= 64 /\ b <= 127)

isPrivateIp(ip) ==
  IF isIP(ip) = 4 THEN isPrivateIp4(ip)
  ELSE IF isIP(ip) = 6 THEN
    LET normalized == toLowerCase(ip)
    IN  \/ normalized = "::1"
        \/ StartsWith(normalized, "fe80:")
        \/ StartsWith(normalized, "fc") \/ StartsWith(normalized, "fd")
        \/ /\ StartsWith(normalized, "::ffff:")
           /\ LET mapped == ReplaceFirst(normalized, "::ffff:", "")
              IN  isIP(mapped) = 4 /\ isPrivateIp4(mapped)
  ELSE FALSE

(***************************************************************************)
(* new URL(text) for the texts "scheme://host/path": the protocol (with its *)
(* colon) and the hostname, as the WHATWG parser gives them. An IPv6        *)
(* literal keeps its brackets in hostname. A text without "://" or with an *)
(* empty host does not parse (new URL throws).                             *)
(***************************************************************************)
InvalidUrl == [valid |-> FALSE, protocol |-> "", hostname |-> "", href |-> ""]

newURL(text) ==
  LET i == IndexOf(text, "://")
      rest == SubSeq(text, i + 3, Len(text))
      j == IndexOf(rest, "/")
      host == IF j = 0 THEN rest ELSE SubSeq(rest, 1, j - 1)
      path == IF j = 0 THEN "/" ELSE SubSeq(rest, j, Len(rest))
      badLiteral == StartsWith(host, "[") /\ ~EndsWith(host, "]")
  IN  IF i <= 1 \/ host = "" \/ badLiteral THEN InvalidUrl
      ELSE [valid |-> TRUE,
            protocol |-> toLowerCase(SubSeq(text, 1, i)),
            hostname |-> toLowerCase(host),
            href |-> toLowerCase(SubSeq(text, 1, i)) \o "//" \o toLowerCase(host) \o path]

\* new URL(location, base).href for a location that is absolute
\* ("scheme://..."), scheme-relative ("//host/path"), an absolute path or a
\* relative path; "" when new URL throws.
resolveUrl(location, base) ==
  LET text == IF IndexOf(location, "://") > 1 THEN location
              ELSE IF StartsWith(location, "//") THEN base.protocol \o location
              ELSE IF StartsWith(location, "/")
                   THEN base.protocol \o "//" \o base.hostname \o location
              ELSE base.protocol \o "//" \o base.hostname \o "/" \o location
  IN  newURL(text).href

\* The messages of the errors the guard and the fetcher throw.
ERR_INVALID_URL == "invalid RSS address"
ERR_SCHEME == "only http/https RSS addresses are supported"
ERR_LOCAL == "local address forbidden"
ERR_PRIVATE == "private network address forbidden"
ERR_DNS == "DNS resolution failed"
ERR_ENOTFOUND == "getaddrinfo ENOTFOUND"
NoError == ""

\* ensurePublicUrl: the message of the error it throws, NoError when it returns.
ensurePublicUrl(parsedUrl) ==
  IF ~parsedUrl.valid \/ parsedUrl.hostname = "" THEN ERR_INVALID_URL
  ELSE IF parsedUrl.protocol \notin {"http:", "https:"} THEN ERR_SCHEME
  ELSE LET hostname == toLowerCase(parsedUrl.hostname)
       IN  IF hostname = "localhost" \/ EndsWith(hostname, ".localhost") THEN ERR_LOCAL
           ELSE IF isIP(hostname) # 0 /\ isPrivateIp(hostname) THEN ERR_PRIVATE
           ELSE NoError

\* What dns.lookup(hostname, {all: true, verbatim: true}) settles with: a
\* rejection (failed) or the list of address records, in the answer's order.
DnsFailed == [failed |-> TRUE, addresses |-> <<>>]
DnsAnswer(addresses) == [failed |-> FALSE, addresses |-> addresses]

NoAddress == [address |-> "", family |-> 0]

\* resolvePublicAddress returning the first record of an answer that holds a
\* public address, instead of that address's record.
resolvePublicAddress_FirstRecord(lookup) ==
  IF lookup.failed THEN [error |-> ERR_ENOTFOUND, value |-> NoAddress]
  ELSE LET addresses == lookup.addresses
           public == {i \in 1..Len(addresses) : ~isPrivateIp(addresses[i].address)}
       IN  IF Len(addresses) = 0 THEN [error |-> ERR_DNS, value |-> NoAddress]
           ELSE IF public = {} THEN [error |-> ERR_PRIVATE, value |-> NoAddress]
           ELSE [error |-> NoError, value |-> addresses[1]]

\* resolvePublicAddress, given what the lookup settled with: the error it
\* throws (the lookup's own rejection passes through the await) or the record
\* addresses.find returns.
resolvePublicAddress(lookup) ==
  IF lookup.failed THEN [error |-> ERR_ENOTFOUND, value |-> NoAddress]
  ELSE LET addresses == lookup.addresses
           public == {i \in 1..Len(addresses) : ~isPrivateIp(addresses[i].address)}
       IN  IF Len(addresses) = 0 THEN [error |-> ERR_DNS, value |-> NoAddress]
           ELSE IF public = {} THEN [error |-> ERR_PRIVATE, value |-> NoAddress]
           ELSE [error |-> NoError,
                 value |-> addresses[CHOOSE i \in public : \A j \in public : i <= j]]

\* A lookup function that asks the DNS again when the socket connects.
createStaticLookup_Resolving(address, family, hostname, wantsAll, dnsNow) ==
  IF wantsAll THEN dnsNow ELSE dnsNow[1]

\* createStaticLookup(address, family): the lookup function handed to the
\* request. Whatever host is asked for and whatever the DNS would answer now
\* (dnsNow), it calls back with the address it was created with.
createStaticLookup(address, family, hostname, wantsAll, dnsNow) ==
  IF wantsAll THEN <<[address |-> address, family |-> family]>>
  ELSE [address |-> address, family |-> family]

(***************************************************************************)
(* The guard functions applied to bounded inputs. gOp names the function   *)
(* applied, gIn its input and gOut its result.                             *)
(***************************************************************************)
VARIABLES gOp, gIn, gOut

guardVars == <<gOp, gIn, gOut>>

\* The state of one fetchRss call, described with the call below.
VARIABLES pc, url, redirectCount, addresses, lookup, nRequests, connAddr, dnsNow,
          status, location, resumed, chunks, totalBytes, sockOpen, outcome,
          idle, ticks

fetchVars ==
  <<pc, url, redirectCount, addresses, lookup, nRequests, connAddr, dnsNow,
    status, location, resumed, chunks, totalBytes, sockOpen, outcome, idle, ticks>>

\* The state of the API: the parsed feed, the calls made on it, the request
\* of a route and its response.
VARIABLES feed, calls, req, res, peer

apiVars == <<feed, calls, req, res, peer>>

vars == <<guardVars, fetchVars, apiVars>>

Octets == 0..255

\* The octets at and next to the edges of the private ranges.
EdgeFirst == {0, 1, 9, 10, 11, 99, 100, 101, 126, 127, 128, 168, 169, 170, 171, 172, 173, 191, 192, 193, 255}
EdgeSecond == {0, 15, 16, 17, 31, 32, 63, 64, 65, 127, 128, 167, 168, 169, 253, 254, 255}

\* The first two octets the IPv4 inputs are drawn with: every second octet
\* for the first octets at the edges, and every first octet for the second
\* octets at the edges.
HeadOctets == (EdgeFirst \X Octets) \cup (Octets \X EdgeSecond)

\* The last two octets the IPv4 inputs are drawn with.
TailOctets == {<<0, 1>>, <<255, 254>>}

\* The literals the specification names.
NamedOctets == {<<127, 0, 0, 1>>, <<10, 0, 0, 5>>, <<169, 254, 169, 254>>, <<93, 184, 216, 34>>}

\* The text of the IPv4 literal with the octets o.
Dotted(o) ==
  DecStr(o[1]) \o "." \o DecStr(o[2]) \o "." \o DecStr(o[3]) \o "." \o DecStr(o[4])

\* The first 16-bit groups the IPv6 inputs are drawn with: the edges of
\* fe80::/10 and fc00::/7 and groups on both sides of them.
FirstGroups ==
  {0, 1, 252, 8193, 64256, 64511, 64512, 64768, 65023, 65024, 65151,
   65152, 65153, 65168, 65215, 65216, 65280}

LastGroups == {0, 1, 2}

\* The text inet_ntop gives the address g1:0:0:0:0:0:0:g8.
Ntop6(g1, g8) ==
  IF g1 = 0 THEN (IF g8 = 0 THEN "::" ELSE "::" \o HexStr(g8))
  ELSE IF g8 = 0 THEN HexStr(g1) \o "::"
  ELSE HexStr(g1) \o "::" \o HexStr(g8)

\* The text inet_ntop gives the IPv4-mapped address ::ffff:a.b.c.d.
Mapped6(o) == "::ffff:" \o Dotted(o)

\* The IPv4-mapped addresses the inputs are drawn with.
MappedOctets ==
  {<<10, 0, 0, 5>>, <<127, 0, 0, 1>>, <<169, 254, 169, 254>>, <<172, 16, 0, 1>>,
   <<172, 32, 0, 1>>, <<192, 168, 1, 1>>, <<100, 64, 0, 1>>, <<100, 128, 0, 1>>,
   <<0, 0, 0, 0>>, <<8, 8, 8, 8>>, <<93, 184, 216, 34>>}

Ip4Inputs ==
  {[family |-> 4, text |-> Dotted(<<h[1], h[2], t[1], t[2]>>), a |-> h[1], b |-> h[2], g1 |-> 0, g8 |-> 0]
     : h \in HeadOctets, t \in TailOctets}
  \cup
  {[family |-> 4, text |-> Dotted(o), a |-> o[1], b |-> o[2], g1 |-> 0, g8 |-> 0] : o \in NamedOctets}

Ip6Inputs ==
  {[family |-> 6, text |-> Ntop6(g1, g8), a |-> 0, b |-> 0, g1 |-> g1, g8 |-> g8]
     : g1 \in FirstGroups, g8 \in LastGroups}
  \cup
  {[family |-> 46, text |-> Mapped6(o), a |-> o[1], b |-> o[2], g1 |-> 0, g8 |-> 0]
     : o \in MappedOctets}

\* isPrivateIp applied to one address text.
GuardClassify ==
  /\ gOp = "none"
  /\ \E ip \in Ip4Inputs \cup Ip6Inputs :
       /\ gIn' = ip
       /\ gOut' = isPrivateIp(ip.text)
  /\ gOp' = "isPrivateIp"
  /\ UNCHANGED <<fetchVars, apiVars>>

\* The URL texts ensurePublicUrl is applied to (after new URL): IPv4
\* literals, names, local names, bracketed IPv6 literals, other schemes and
\* texts that do not parse.
UrlSchemes == {"http", "https", "HTTP", "ftp", "file"}

UrlNames ==
  {"example.com", "localhost", "LocalHost", "a.localhost", "notlocalhost",
   "localhost.example.com", "[::1]", "[fe80::1]", "[2001::1]"}

UrlInputs ==
  {[family |-> 4, text |-> sch \o "://" \o Dotted(o) \o "/feed", scheme |-> sch,
    a |-> o[1], b |-> o[2]] : sch \in UrlSchemes, o \in NamedOctets \cup MappedOctets}
  \cup
  {[family |-> 0, text |-> sch \o "://" \o h \o "/feed", scheme |-> sch, a |-> 0, b |-> 0]
     : sch \in UrlSchemes, h \in UrlNames}
  \cup
  {[family |-> 0, text |-> t, scheme |-> "", a |-> 0, b |-> 0]
     : t \in {"", "feed.xml", "http://", "http-feed.xml"}}

\* ensurePublicUrl applied to new URL(text), as fetchRss applies it.
GuardEnsure ==
  /\ gOp = "none"
  /\ \E u \in UrlInputs :
       /\ gIn' = u
       /\ gOut' = ensurePublicUrl(newURL(u.text))
  /\ gOp' = "ensurePublicUrl"
  /\ UNCHANGED <<fetchVars, apiVars>>

\* The longest DNS answer the inputs are drawn with.
MaxAnswers == 3

\* The addresses of the DNS answers: public and private ones of both families.
DnsAddresses == {"93.184.216.34", "10.0.0.5", "::1", "2001::1", "fe90::1"}

AddressRecord(address) == [address |-> address, family |-> isIP(address)]

RECURSIVE AnswersOfLen(_)
AnswersOfLen(n) ==
  IF n = 0 THEN {<<>>}
  ELSE {Append(l, AddressRecord(x)) : l \in AnswersOfLen(n - 1), x \in DnsAddresses}

DnsLookups ==
  {DnsFailed} \cup {DnsAnswer(l) : l \in UNION {AnswersOfLen(n) : n \in 0..MaxAnswers}}

\* resolvePublicAddress applied to what the lookup of a name settled with.
GuardResolve ==
  /\ gOp = "none"
  /\ \E l \in DnsLookups :
       /\ gIn' = l
       /\ gOut' = resolvePublicAddress(l)
  /\ gOp' = "resolvePublicAddress"
  /\ UNCHANGED <<fetchVars, apiVars>>

(***************************************************************************)
(* fetchRss: one call, from the caller's promise to its settlement.         *)
(*                                                                         *)
(* pc is the position of the call: "idle" before it, "dns" awaiting         *)
(* resolvePublicAddress, "connect" once the request of the hop is created,  *)
(* "headers" once its socket is connected, "body" while the 200 response   *)
(* streams, "decode" awaiting zlib, "done" when no handler of the call is   *)
(* left to run on a live socket, "aborted" after the server closed the      *)
(* connection in mid-body and "crashed" after the response callback threw.  *)
(***************************************************************************)
MAX_REDIRECTS == 3
REQUEST_TIMEOUT_MS == 10000
MAX_RSS_BYTES == 5 * 1024 * 1024

ERR_REDIRECTS == "too many redirects"
ERR_TOO_LARGE == "RSS content too large"
ERR_DECODE == "failed to decompress RSS content"
ERR_TIMEOUT == "RSS request timed out"
ERR_REQUEST == "request to RSS address failed"
ERR_STATUS(code) == "failed to fetch RSS, status code " \o DecStr(code)

FeedText == "feed text"

\* The promise fetchRss returns: resolve and reject settle it once, and are
\* without effect on a settled promise.
Pending == [state |-> "pending", value |-> ""]
resolve(p, text) == IF p.state = "pending" THEN [state |-> "fulfilled", value |-> text] ELSE p
reject(p, message) == IF p.state = "pending" THEN [state |-> "rejected", value |-> message] ELSE p

NoStatus == 0
NoLocation == ""

\* The URLs the caller gives.
TargetUrls ==
  {"http://example.com/feed", "http://93.184.216.34/feed",
   "http://10.0.0.5/feed", "http://localhost/feed", "ftp://example.com/feed",
   "http://[::1]/feed", "feed.xml"}

\* The Location headers a server answers a 3xx status with.
Locations ==
  {"http://example.com/feed", "https://cdn.example.net/feed", "/feed",
   "//10.0.0.5/latest", "http://127.0.0.1/feed", "http://a.localhost/feed",
   "ftp://example.com/feed", "http://[fd00::1]/feed", "http-feed.xml", "//["}

\* The Location headers of the other statuses.
OtherLocations == {"/feed"}

\* The status codes a server answers with.
StatusCodes == {200, 204, 301, 304, 404}

\* What the DNS answers for a name: failure, no address, public and private
\* addresses. A bracketed IPv6 literal is no name getaddrinfo knows.
NameLookups ==
  {DnsFailed,
   DnsAnswer(<<>>),
   DnsAnswer(<<AddressRecord("93.184.216.34")>>),
   DnsAnswer(<<AddressRecord("10.0.0.5")>>),
   DnsAnswer(<<AddressRecord("10.0.0.5"), AddressRecord("::1")>>),
   DnsAnswer(<<AddressRecord("10.0.0.5"), AddressRecord("2001::1"), AddressRecord("93.184.216.34")>>)}

DnsOutcomes(hostname) == IF StartsWith(hostname, "[") THEN {DnsFailed} ELSE NameLookups

\* What the DNS would answer when the socket connects (it may have changed
\* since the lookup of the hop).
RebindAnswers == {<<AddressRecord("93.184.216.34")>>, <<AddressRecord("127.0.0.1")>>}

\* The sizes of the chunks of a body, and the most chunks of one body.
ChunkSizes == {1, MAX_RSS_BYTES \div 2, MAX_RSS_BYTES}
MaxChunks == 2

\* The clock advances by half the timeout; at most MaxTicks times per hop.
TickMs == REQUEST_TIMEOUT_MS \div 2
MaxTicks == 3

RECURSIVE SumFrom(_, _)
SumFrom(seq, i) == IF i > Len(seq) THEN 0 ELSE seq[i] + SumFrom(seq, i + 1)

\* Buffer.concat(chunks).length
SumOf(seq) == SumFrom(seq, 1)

\* The state a hop starts with: nothing resolved, requested or received.
HopReset ==
  /\ addresses' = DnsAnswer(<<>>)
  /\ lookup' = NoAddress
  /\ connAddr' = ""
  /\ dnsNow' = <<>>
  /\ status' = NoStatus
  /\ location' = NoLocation
  /\ resumed' = FALSE
  /\ chunks' = <<>>
  /\ totalBytes' = 0
  /\ idle' = 0
  /\ ticks' = 0

\* fetchRss that validates the caller's URL only, not a redirect target.
StartHop_TrustRedirect(targetUrl, count) ==
  \E parsedUrl \in {newURL(targetUrl)} :
    \E error \in {IF ~parsedUrl.valid THEN ERR_INVALID_URL
                  ELSE IF count > 0 THEN NoError
                  ELSE ensurePublicUrl(parsedUrl)} :
      /\ HopReset
      /\ url' = parsedUrl
      /\ redirectCount' = count
      /\ IF error # NoError
         THEN /\ outcome' = reject(outcome, error)
              /\ pc' = "done"
              /\ UNCHANGED <<nRequests, sockOpen>>
         ELSE IF isIP(toLowerCase(parsedUrl.hostname)) # 0
         THEN /\ pc' = "connect"
              /\ nRequests' = nRequests + 1
              /\ sockOpen' = TRUE
              /\ UNCHANGED outcome
         ELSE /\ pc' = "dns"
              /\ UNCHANGED <<nRequests, sockOpen, outcome>>

\* fetchRss(targetUrl, count) up to its first suspension: new URL and
\* ensurePublicUrl; a throw rejects the promise; an IP literal goes straight
\* to httpClient.get, a name to the await of resolvePublicAddress.
StartHop(targetUrl, count) ==
  \E parsedUrl \in {newURL(targetUrl)} :
    \E error \in {IF ~parsedUrl.valid THEN ERR_INVALID_URL ELSE ensurePublicUrl(parsedUrl)} :
      /\ HopReset
      /\ url' = parsedUrl
      /\ redirectCount' = count
      /\ IF error # NoError
         THEN /\ outcome' = reject(outcome, error)
              /\ pc' = "done"
              /\ UNCHANGED <<nRequests, sockOpen>>
         ELSE IF isIP(toLowerCase(parsedUrl.hostname)) # 0
         THEN /\ pc' = "connect"
              /\ nRequests' = nRequests + 1
              /\ sockOpen' = TRUE
              /\ UNCHANGED outcome
         ELSE /\ pc' = "dns"
              /\ UNCHANGED <<nRequests, sockOpen, outcome>>

\* The caller calls fetchRss(targetUrl).
Call ==
  /\ pc = "idle"
  /\ \E targetUrl \in TargetUrls : StartHop(targetUrl, 0)
  /\ UNCHANGED <<guardVars, apiVars>>

\* The await of resolvePublicAddress(hostname) settles: a throw rejects the
\* promise; otherwise the lookup is pinned to resolved.address and
\* httpClient.get creates the request of the hop.
DnsSettle ==
  /\ pc = "dns"
  /\ \E l \in DnsOutcomes(url.hostname) :
       \E resolved \in {resolvePublicAddress(l)} :
           /\ addresses' = l
           /\ IF resolved.error # NoError
              THEN /\ outcome' = reject(outcome, resolved.error)
                   /\ pc' = "done"
                   /\ UNCHANGED <<lookup, nRequests, sockOpen>>
              ELSE /\ lookup' = [address |-> resolved.value.address,
                                 family |-> isIP(resolved.value.address)]
                   /\ pc' = "connect"
                   /\ nRequests' = nRequests + 1
                   /\ sockOpen' = TRUE
                   /\ UNCHANGED outcome
  /\ UNCHANGED <<url, redirectCount, connAddr, dnsNow, status, location, resumed,
                 chunks, totalBytes, idle, ticks, guardVars, apiVars>>

\* The address the socket of the request connects to. http.get passes the
\* host without the brackets of an IPv6 literal; net connects to an IP host
\* directly and asks the lookup option, when there is one, for a name; the
\* system resolver (answer: what the DNS says now) is asked only without it.
connectAddress(hostname, pinned, answer) ==
  LET host == IF StartsWith(hostname, "[") THEN SubSeq(hostname, 2, Len(hostname) - 1)
              ELSE hostname
  IN  IF isIP(host) # 0 THEN host
      ELSE IF pinned # NoAddress
           THEN createStaticLookup(pinned.address, pinned.family, host, FALSE, answer).address
      ELSE answer[1].address

\* The socket of the request connects; the idle timer of request.setTimeout
\* starts.
Connect ==
  /\ pc = "connect"
  /\ \E answer \in RebindAnswers :
       /\ dnsNow' = answer
       /\ connAddr' = connectAddress(url.hostname, lookup, answer)
  /\ pc' = "headers"
  /\ idle' = 0
  /\ UNCHANGED <<url, redirectCount, addresses, lookup, nRequests, status, location,
                 resumed, chunks, totalBytes, sockOpen, outcome, ticks, guardVars, apiVars>>

\* statusCode >= 300 && statusCode < 400 && headers.location
isRedirect(statusCode, loc) == statusCode >= 300 /\ statusCode < 400 /\ loc # NoLocation

\* The budget test with > in place of >=.
tooManyRedirects_OffByOne(count) == count > MAX_REDIRECTS

\* redirectCount >= MAX_REDIRECTS
tooManyRedirects(count) == count >= MAX_REDIRECTS

\* A status test that reads the body of every 2xx response.
isAccepted_Any2xx(statusCode) == statusCode >= 200 /\ statusCode < 300

\* The statuses whose body is read: statusCode !== 200 rejects.
isAccepted(statusCode) == statusCode = 200

\* The URL the redirect branch hands to fetchRss: the Location itself when
\* it starts with "http", else new URL(location, parsedUrl).href, which is ""
\* here when new URL throws.
nextUrlOf(loc, parsedUrl) ==
  IF StartsWith(loc, "http") THEN loc ELSE resolveUrl(loc, parsedUrl)

\* The clock of a hop stops with the hop: its socket timer is cleared and
\* what the DNS answers no longer matters to it.
ClockStops == idle' = 0 /\ ticks' = 0 /\ dnsNow' = <<>>

\* The response callback: the headers of the hop arrive, with one of the
\* status codes and one of the Location headers given.
ResponseWith(codes, locations) ==
  /\ pc = "headers"
  /\ sockOpen
  /\ \E statusCode \in codes, loc \in locations :
     \E nextUrl \in {nextUrlOf(loc, url)} :
       /\ (statusCode < 300 \/ statusCode >= 400) => loc \in OtherLocations \cup {NoLocation}
       /\ IF isRedirect(statusCode, loc)
          THEN IF tooManyRedirects(redirectCount)
               THEN /\ outcome' = reject(outcome, ERR_REDIRECTS)
                    /\ pc' = "done"
                    /\ status' = statusCode
                    /\ location' = loc
                    /\ resumed' = TRUE
                    /\ ClockStops
                    /\ UNCHANGED <<url, redirectCount, addresses, lookup, nRequests, connAddr,
                                   chunks, totalBytes, sockOpen>>
               ELSE IF nextUrl = ""
               THEN \* new URL(location, parsedUrl) throws inside the callback: no
                    \* handler catches it and the promise is not settled.
                    /\ pc' = "crashed"
                    /\ status' = statusCode
                    /\ location' = loc
                    /\ resumed' = TRUE
                    /\ ClockStops
                    /\ UNCHANGED <<url, redirectCount, addresses, lookup, nRequests, connAddr,
                                   chunks, totalBytes, sockOpen, outcome>>
               ELSE StartHop(nextUrl, redirectCount + 1)
          ELSE IF ~isAccepted(statusCode)
          THEN /\ outcome' = reject(outcome, ERR_STATUS(statusCode))
               /\ pc' = "done"
               /\ status' = statusCode
               /\ location' = loc
               /\ resumed' = TRUE
               /\ ClockStops
               /\ UNCHANGED <<url, redirectCount, addresses, lookup, nRequests, connAddr,
                              chunks, totalBytes, sockOpen>>
          ELSE /\ pc' = "body"
               /\ status' = statusCode
               /\ location' = loc
               /\ chunks' = <<>>
               /\ totalBytes' = 0
               /\ idle' = 0
               /\ dnsNow' = <<>>
               /\ UNCHANGED <<url, redirectCount, addresses, lookup, nRequests, connAddr,
                              resumed, sockOpen, outcome, ticks>>
  /\ UNCHANGED <<guardVars, apiVars>>

Response == ResponseWith(StatusCodes, Locations \cup {NoLocation})

\* A "data" handler that pushes the chunk before it tests the counter.
onData_PushFirst(buffered, total, len) ==
  [chunks |-> Append(buffered, len),
   totalBytes |-> total + len,
   destroyed |-> total + len > MAX_RSS_BYTES]

\* The "data" handler on a chunk of length len: the counter grows first; a
\* counter over the cap destroys the response and rejects, and the chunk is
\* not pushed.
onData(buffered, total, len) ==
  IF total + len > MAX_RSS_BYTES
  THEN [chunks |-> buffered, totalBytes |-> total + len, destroyed |-> TRUE]
  ELSE [chunks |-> Append(buffered, len), totalBytes |-> total + len, destroyed |-> FALSE]

\* A chunk of the body arrives.
Data ==
  /\ pc = "body"
  /\ sockOpen
  /\ Len(chunks) < MaxChunks
  /\ \E len \in ChunkSizes :
       LET after == onData(chunks, totalBytes, len)
       IN  /\ chunks' = after.chunks
           /\ totalBytes' = after.totalBytes
           /\ IF after.destroyed
              THEN /\ sockOpen' = FALSE
                   /\ outcome' = reject(outcome, ERR_TOO_LARGE)
                   /\ pc' = "done"
                   /\ ClockStops
              ELSE /\ idle' = 0
                   /\ UNCHANGED <<sockOpen, outcome, pc, ticks, dnsNow>>
  /\ UNCHANGED <<url, redirectCount, addresses, lookup, nRequests, connAddr,
                 status, location, resumed, guardVars, apiVars>>

\* The values of the content-encoding header.
Encodings == {"", "gzip", "deflate", "br", "identity"}

\* The "end" handler: nothing when the counter is over the cap; a zlib call
\* for gzip, deflate and br; the text at once otherwise.
End ==
  /\ pc = "body"
  /\ sockOpen
  /\ \E encoding \in Encodings :
       IF totalBytes > MAX_RSS_BYTES
       THEN pc' = "done" /\ UNCHANGED outcome
       ELSE IF encoding \in {"gzip", "deflate", "br"}
       THEN pc' = "decode" /\ UNCHANGED outcome
       ELSE pc' = "done" /\ outcome' = resolve(outcome, FeedText)
  /\ ClockStops
  /\ UNCHANGED <<url, redirectCount, addresses, lookup, nRequests, connAddr,
                 status, location, resumed, chunks, totalBytes, sockOpen, guardVars, apiVars>>

\* finish(err, decoded): the zlib callback.
Decoded ==
  /\ pc = "decode"
  /\ \E err \in BOOLEAN :
       outcome' = IF err THEN reject(outcome, ERR_DECODE) ELSE resolve(outcome, FeedText)
  /\ pc' = "done"
  /\ UNCHANGED <<url, redirectCount, addresses, lookup, nRequests, connAddr, dnsNow,
                 status, location, resumed, chunks, totalBytes, sockOpen, idle, ticks,
                 guardVars, apiVars>>

\* Time passes on a connected socket: by TickMs, and not past the moment the
\* idle timer fires.
Tick ==
  /\ pc \in {"headers", "body"}
  /\ sockOpen
  /\ idle < REQUEST_TIMEOUT_MS
  /\ ticks < MaxTicks
  /\ idle' = idle + TickMs
  /\ ticks' = ticks + 1
  /\ UNCHANGED <<pc, url, redirectCount, addresses, lookup, nRequests, connAddr, dnsNow,
                 status, location, resumed, chunks, totalBytes, sockOpen, outcome,
                 guardVars, apiVars>>

\* The callback of request.setTimeout: the socket has been idle for
\* REQUEST_TIMEOUT_MS; request.destroy(error) emits "error" on the request,
\* whose handler rejects with the message.
Timeout ==
  /\ pc \in {"headers", "body"}
  /\ sockOpen
  /\ idle >= REQUEST_TIMEOUT_MS
  /\ outcome' = reject(outcome, ERR_TIMEOUT)
  /\ sockOpen' = FALSE
  /\ pc' = "done"
  /\ ClockStops
  /\ UNCHANGED <<url, redirectCount, addresses, lookup, nRequests, connAddr,
                 status, location, resumed, chunks, totalBytes, guardVars, apiVars>>

\* The messages of socket errors; the empty one takes the fallback message.
SocketErrors == {"connect ECONNREFUSED", "read ECONNRESET", ""}

\* The "error" handler of the request.
onError(p, message) == IF message # "" THEN reject(p, message) ELSE reject(p, ERR_REQUEST)

\* A socket error while the request is in flight.
SocketError ==
  /\ pc \in {"connect", "headers", "body"}
  /\ sockOpen
  /\ \E message \in SocketErrors : outcome' = onError(outcome, message)
  /\ sockOpen' = FALSE
  /\ pc' = "done"
  /\ ClockStops
  /\ UNCHANGED <<url, redirectCount, addresses, lookup, nRequests, connAddr,
                 status, location, resumed, chunks, totalBytes, guardVars, apiVars>>

\* The server closes the connection before the body is complete. The
\* response is aborted: it emits no "end", and the request emits no "error"
\* once it has a response. fetchRss listens to "data" and "end" of the
\* response and to "error" of the request only, so no handler runs.
ServerClose ==
  /\ pc = "body"
  /\ sockOpen
  /\ sockOpen' = FALSE
  /\ pc' = "aborted"
  /\ ClockStops
  /\ UNCHANGED <<url, redirectCount, addresses, lookup, nRequests, connAddr,
                 status, location, resumed, chunks, totalBytes, outcome, guardVars, apiVars>>

\* A socket error after the promise is settled (the socket of a drained
\* response is still open): the "error" handler rejects again.
LateError ==
  /\ pc = "done"
  /\ sockOpen
  /\ \E message \in SocketErrors : outcome' = onError(outcome, message)
  /\ sockOpen' = FALSE
  /\ UNCHANGED <<pc, url, redirectCount, addresses, lookup, nRequests, connAddr, dnsNow,
                 status, location, resumed, chunks, totalBytes, idle, ticks, guardVars, apiVars>>

(***************************************************************************)
(* The parsed feed and the extraction of episodes.                         *)
(*                                                                         *)
(* A value of the parsed tree is [kind, text]: kind "undefined" for an      *)
(* absent element, "string" for element text, "number" for text the XML     *)
(* parser turned into a number and "object" for an element with attributes, *)
(* whose text is its "#text" member.                                        *)
(***************************************************************************)
PER_PAGE == 10
MAX_LIMIT == 50

Undefined == [kind |-> "undefined", text |-> ""]
Str(text) == [kind |-> "string", text |-> text]
Num(text) == [kind |-> "number", text |-> text]
Obj(text) == [kind |-> "object", text |-> text]

\* a || b on strings
Or(a, b) == IF a # "" THEN a ELSE b

\* Array.prototype.slice(from, to) with 0 <= from <= to
Slice(seq, from, to) ==
  IF from >= Len(seq) THEN <<>> ELSE SubSeq(seq, from + 1, Min(to, Len(seq)))

IsSpace(c) == c \in {" ", "\n", "\t", "\r"}

\* String.prototype.trim
Trim(s) ==
  Val({Val({IF keep = {} THEN ""
            ELSE SubSeq(text, CHOOSE i \in keep : \A j \in keep : i <= j,
                              CHOOSE i \in keep : \A j \in keep : i >= j)
            : keep \in {{i \in 1..Len(text) : ~IsSpace(CharAt(text, i))}}})
       : text \in {s}})

\* The character references the inputs use, with the text each stands for.
Entities ==
  <<<<"&amp;", "&">>, <<"&lt;", "<">>, <<"&gt;", ">">>, <<"&quot;", "\"">>, <<"&#39;", "'">>>>

\* The entity that starts at position i of s, 0 when there is none.
EntityAt(s, i) ==
  LET found == {k \in 1..Len(Entities) :
                  /\ CharAt(s, i) = "&"
                  /\ i + Len(Entities[k][1]) - 1 <= Len(s)
                  /\ SubSeq(s, i, i + Len(Entities[k][1]) - 1) = Entities[k][1]}
  IN  IF found = {} THEN 0 ELSE CHOOSE k \in found : TRUE

RECURSIVE DecodeFrom(_, _)
\* he.decode from position i on: one pass, a decoded character is not read again.
DecodeFrom(s, i) ==
  IF i > Len(s) THEN ""
  ELSE LET hits == {j \in i..Len(s) : EntityAt(s, j) # 0}
       IN  IF hits = {} THEN SubSeq(s, i, Len(s))
           ELSE CHOOSE r \in {SubSeq(s, i, m - 1) \o Entities[EntityAt(s, m)][2]
                                \o DecodeFrom(s, m + Len(Entities[EntityAt(s, m)][1]))
                              : m \in {CHOOSE j \in hits : \A k \in hits : j <= k}} : TRUE

\* decodeHtml on a string ("" for a value that is no string)
decodeHtml(value) == Val({DecodeFrom(text, 1) : text \in {value}})

toLink(value) ==
  IF value.kind \in {"string", "object"} /\ value.text # ""
  THEN Trim(decodeHtml(value.text))
  ELSE ""

\* typeof raw === "string" ? raw.trim() : ""
trimIfString(raw) == IF raw.kind = "string" THEN Trim(raw.text) ELSE ""

\* null, the value of parseTimestamp for no date
Null == -2

\* The texts of pubDate the inputs use and new Date(text).getTime() of each.
DateTexts == {"Thu, 01 Jan 1970 00:00:00 GMT", "Thu, 01 Jan 1970 00:00:01 GMT", "soon"}

getTime(text) ==
  CASE text = "Thu, 01 Jan 1970 00:00:00 GMT" -> 0
    [] text = "Thu, 01 Jan 1970 00:00:01 GMT" -> 1000
    [] OTHER -> NaN

parseTimestamp(value) ==
  IF value = "" THEN Null
  ELSE IF getTime(value) = NaN THEN Null ELSE getTime(value)

\* The hex digest of createHash("sha256") over text, kept as the term
\* sha256(text): two digests are equal exactly when their texts are.
sha256hex(text) == [sha256 |-> text]

\* `${value || ""}` of a timestamp or null
timeText(publishedAt) ==
  IF publishedAt = Null \/ publishedAt = 0 THEN "" ELSE DecStr(publishedAt)

buildEpisodeId_LinkFirst(episode) ==
  LET fallbackSource ==
        episode.title \o "-" \o timeText(episode.publishedAt) \o "-" \o episode.audio
  IN  sha256hex(Or(episode.url, Or(episode.link, Or(episode.guid, Or(episode.id,
        Or(episode.uid, Or(episode.audio, fallbackSource)))))))

buildEpisodeId(episode) ==
  LET fallbackSource ==
        episode.title \o "-" \o timeText(episode.publishedAt) \o "-" \o episode.audio
  IN  sha256hex(Or(episode.guid, Or(episode.id, Or(episode.uid, Or(episode.audio,
        Or(episode.url, Or(episode.link, fallbackSource)))))))

\* The channel of a tree without rss.channel
EmptyChannel ==
  [title |-> "", author |-> "", image |-> "", link |-> "", description |-> "",
   item |-> <<>>]

getChannelInfo(rssData) == IF rssData.hasChannel THEN rssData.channel ELSE EmptyChannel

\* ensureArray(channel.item): the parser gives nothing for no item element,
\* the item for one and an array for several; item is the list of them.
ensureArray(value) == value

\* The episode of one item of the page; index counts from 0 within the page.
\* (The description fields are functions of the item alone and are modelled
\* with toText and toRichHtml.)
episodeTitle_PageIndex(item, start, index) ==
  Or(item.title, "Episode " \o DecStr(index + 1))

episodeTitle(item, start, index) ==
  Or(item.title, "Episode " \o DecStr(start + index + 1))

episodeOf(channel, item, start, index) ==
  Val({Val({
    [id |-> buildEpisodeId(idSource),
     title |-> idSource.title,
     author |-> Or(item.author, channel.author),
     publishedAt |-> idSource.publishedAt,
     audio |-> idSource.audio,
     image |-> Or(item.image, channel.image),
     url |-> episodeLink,
     link |-> episodeLink,
     guid |-> Or(idSource.guid, Or(idSource.id, idSource.uid))]
    : idSource \in
        {[guid |-> Or(toLink(item.guid), trimIfString(item.guid)),
          id |-> Or(toLink(item.id), trimIfString(item.id)),
          uid |-> Or(toLink(item.uid), trimIfString(item.uid)),
          audio |-> Or(item.enclosure.atUrl, item.enclosure.url),
          url |-> episodeLink, link |-> episodeLink,
          title |-> episodeTitle(item, start, index),
          publishedAt |-> parseTimestamp(item.pubDate)]}})
    : episodeLink \in
        {Or(toLink(item.link), Or(toLink(item.guid), Or(toLink(item.origLink),
           toLink(Str(item.enclosure.url)))))}})

pageOf_FromLimit(items, start, limit) == Slice(items, start, limit)

\* items.slice(start, start + limit)
pageOf(items, start, limit) == Slice(items, start, start + limit)

extractEpisodesPage(rssData, start, limit) ==
  Val({Val({
    [total |-> Len(ensureArray(channel.item)),
     episodes |-> [index \in 1..Len(pageItems) |->
                     episodeOf(channel, pageItems[index], start, index - 1)]]
    : pageItems \in {pageOf(ensureArray(channel.item), start, limit)}})
    : channel \in {getChannelInfo(rssData)}})

(***************************************************************************)
(* Episode extraction applied to bounded feeds. feed is the parsed tree of  *)
(* the feed, which does not change, and calls the extractEpisodesPage       *)
(* calls made on it so far, each with its arguments and its result.         *)
(***************************************************************************)
MaxItems == 3

NoEnclosure == [atUrl |-> "", url |-> ""]

\* An item with every identifying element.
ItemFull ==
  [title |-> "Pilot", guid |-> Obj("urn:ep:1"), id |-> Undefined, uid |-> Undefined,
   link |-> Str("https://example.com/ep/1?a=1&amp;b=2"), origLink |-> Undefined,
   enclosure |-> [atUrl |-> "https://cdn.example.com/1.mp3", url |-> ""],
   pubDate |-> "Thu, 01 Jan 1970 00:00:01 GMT", author |-> "Ann", image |-> ""]

\* An item with no element at all: its title and its id come from its position.
ItemBare ==
  [title |-> "", guid |-> Undefined, id |-> Undefined, uid |-> Undefined,
   link |-> Undefined, origLink |-> Undefined, enclosure |-> NoEnclosure,
   pubDate |-> "", author |-> "", image |-> ""]

\* An item whose guid the parser read as a number and whose date does not parse.
ItemNumericGuid ==
  [title |-> "", guid |-> Num("12345"), id |-> Undefined, uid |-> Undefined,
   link |-> Undefined, origLink |-> Undefined, enclosure |-> NoEnclosure,
   pubDate |-> "soon", author |-> "", image |-> ""]

\* An item identified by a uid only.
ItemUid ==
  [title |-> "Third", guid |-> Str(""), id |-> Undefined, uid |-> Str(" u-3 "),
   link |-> Undefined, origLink |-> Undefined, enclosure |-> NoEnclosure,
   pubDate |-> "Thu, 01 Jan 1970 00:00:00 GMT", author |-> "", image |-> ""]

ItemPool == {ItemFull, ItemBare, ItemNumericGuid, ItemUid}

RECURSIVE ItemLists(_)
ItemLists(n) ==
  IF n = 0 THEN {<<>>}
  ELSE ItemLists(n - 1) \cup
       {Append(l, it) : l \in {x \in ItemLists(n - 1) : Len(x) = n - 1}, it \in ItemPool}

ChannelOf(items) ==
  [title |-> "Show", author |-> "Host", image |-> "https://example.com/cover.png",
   link |-> "https://example.com", description |-> "", item |-> items]

\* The tree of a document without rss.channel
NoChannelTree == [hasChannel |-> FALSE, channel |-> EmptyChannel]

Feeds ==
  {NoChannelTree} \cup {[hasChannel |-> TRUE, channel |-> ChannelOf(l)] : l \in ItemLists(MaxItems)}

PageStarts == 0..(MaxItems + 1)
PageLimits == {1, 2, PER_PAGE}

\* extractEpisodesPage(feed, start, limit) is called.
ExtractPage ==
  /\ Len(calls) < 2
  /\ \E start \in PageStarts, limit \in PageLimits :
       calls' = Append(calls, [start |-> start, limit |-> limit,
                               result |-> extractEpisodesPage(feed, start, limit)])
  /\ UNCHANGED <<feed, req, res, peer, guardVars, fetchVars>>

\* The candidates buildEpisodeId is applied to.
IdSources ==
  [guid : {"", "urn:ep:1", "urn:ep:2"}, id : {"", "id-7"}, uid : {"", "u-3"},
   audio : {"", "https://cdn.example.com/1.mp3"},
   url : {"", "https://example.com/ep/1"}, link : {"", "https://example.com/ep/1"},
   title : {"Episode 2", "Pilot"}, publishedAt : {Null, 0, 1000}]

\* buildEpisodeId applied to one set of candidates.
BuildId ==
  /\ gOp = "none"
  /\ \E episode \in IdSources :
       /\ gIn' = episode
       /\ gOut' = buildEpisodeId(episode)
  /\ gOp' = "buildEpisodeId"
  /\ UNCHANGED <<fetchVars, apiVars>>

(***************************************************************************)
(* Text derivation. A regular expression of the source is an operator that  *)
(* gives, for a text and a position, the position where its match from      *)
(* there ends, or 0 when it does not match there.                           *)
(***************************************************************************)
\* The last position of the longest run of characters of class In from
\* position i on (i - 1 when the character at i is not of the class).
RunEnd(s, i, In(_)) ==
  Val({Val({IF stops = {} THEN Len(s) ELSE (CHOOSE j \in stops : \A k \in stops : j <= k) - 1
            : stops \in {IF near # {} THEN near
                         ELSE {k \in (i + 8)..Len(s) : ~In(CharAt(s, k))}}})
       : near \in {{k \in i..Min(i + 7, Len(s)) : ~In(CharAt(s, k))}}})

\* s holds the text lit at position i
At(s, i, lit) == i >= 1 /\ i + Len(lit) - 1 <= Len(s) /\ SubSeq(s, i, i + Len(lit) - 1) = lit

IsSpaceOrTab(c) == c \in {" ", "\t"}
IsNewline(c) == c = "\n"
IsWordChar(c) == c \in LowerLetters \/ c \in UpperLetters \/ IsDigit(c) \/ c = "_"

\* The smallest element of a non-empty set of positions.
First(positions) == CHOOSE i \in positions : \A j \in positions : i <= j

\* String.prototype.replace with a global pattern: the matches are taken
\* from left to right and do not overlap.
ReplaceAll(s, Match(_, _), With(_)) ==
  Val({Val({
    LET NextMatch(i) ==
          LET later == {j \in hits : j >= i}
          IN  IF later = {} THEN 0 ELSE First(later)
        RECURSIVE From(_)
        From(i) ==
          IF i > Len(text) THEN ""
          ELSE Val({IF m = 0 THEN SubSeq(text, i, Len(text))
                    ELSE Val({SubSeq(text, i, m - 1) \o With(SubSeq(text, m, e)) \o From(e + 1)
                              : e \in {Match(text, m)}})
                    : m \in {NextMatch(i)}})
    IN  From(1)
    : hits \in {{j \in 1..Len(text) : Match(text, j) >= j}}})
    : text \in {s}})

RECURSIVE Concat(_, _)
\* The text of the pieces from the i-th on.
Concat(pieces, i) == IF i > Len(pieces) THEN "" ELSE pieces[i] \o Concat(pieces, i + 1)

ToNewline(m) == "\n"
ToNothing(m) == ""
ToBlankLine(m) == "\n\n"

\* /<(br|BR)\s*\/?>/
MatchBr(s, i) ==
  IF At(s, i, "<br") \/ At(s, i, "<BR")
  THEN LET j == RunEnd(s, i + 3, IsSpace) + 1
           k == IF At(s, j, "/") THEN j + 1 ELSE j
       IN  IF At(s, k, ">") THEN k ELSE 0
  ELSE 0

BlockNames == <<"p", "div", "li", "h1", "h2", "h3", "h4", "h5", "h6">>

\* /<\/(p|div|li|h[1-6])>/i
MatchBlockClose(s, i) ==
  LET hits == {n \in 1..Len(BlockNames) :
                 /\ At(s, i, "</")
                 /\ i + 2 + Len(BlockNames[n]) <= Len(s)
                 /\ toLowerCase(SubSeq(s, i + 2, i + 1 + Len(BlockNames[n]))) = BlockNames[n]
                 /\ At(s, i + 2 + Len(BlockNames[n]), ">")}
  IN  IF hits = {} THEN 0 ELSE i + 2 + Len(BlockNames[CHOOSE n \in hits : TRUE])

\* /<[^>]*>/
MatchTag(s, i) == IF At(s, i, "<") THEN IndexFrom(s, ">", i + 1) ELSE 0

\* /\r\n?/
MatchCr(s, i) ==
  IF At(s, i, "\r") THEN (IF At(s, i + 1, "\n") THEN i + 1 ELSE i) ELSE 0

\* /[ \t]+\n/
MatchBlanksNewline(s, i) ==
  LET e == RunEnd(s, i, IsSpaceOrTab)
  IN  IF e >= i /\ At(s, e + 1, "\n") THEN e + 1 ELSE 0

\* /\n{3,}/
MatchNewlines3(s, i) ==
  LET e == RunEnd(s, i, IsNewline)
  IN  IF e >= i + 2 THEN e ELSE 0

toTextOf_CollapseFirst(decoded) ==
  Val({Trim(s6) :
         s6 \in {ReplaceAll(s5, MatchBlanksNewline, ToNewline) :
         s5 \in {ReplaceAll(s4, MatchNewlines3, ToBlankLine) :
         s4 \in {ReplaceAll(s3, MatchCr, ToNewline) :
         s3 \in {ReplaceAll(s2, MatchTag, ToNothing) :
         s2 \in {ReplaceAll(s1, MatchBlockClose, ToNewline) :
         s1 \in {ReplaceAll(decoded, MatchBr, ToNewline)}}}}}}})

\* The replacements of toText on the decoded text.
toTextOf(decoded) ==
  Val({Trim(s6) :
         s6 \in {ReplaceAll(s5, MatchNewlines3, ToBlankLine) :
         s5 \in {ReplaceAll(s4, MatchBlanksNewline, ToNewline) :
         s4 \in {ReplaceAll(s3, MatchCr, ToNewline) :
         s3 \in {ReplaceAll(s2, MatchTag, ToNothing) :
         s2 \in {ReplaceAll(s1, MatchBlockClose, ToNewline) :
         s1 \in {ReplaceAll(decoded, MatchBr, ToNewline)}}}}}}})

toText(value) ==
  IF value = "" THEN ""
  ELSE Val({IF decoded = "" THEN "" ELSE toTextOf(decoded) : decoded \in {decodeHtml(value)}})

\* The markers convertHtmlToPlainText writes for bold and italic, with the tag of each.
FormattingTokens ==
  <<[open |-> "__STRONG_OPEN__", close |-> "__STRONG_CLOSE__", tag |-> "strong"],
    [open |-> "__EM_OPEN__", close |-> "__EM_CLOSE__", tag |-> "em"]>>

RECURSIVE Repeat(_, _)
Repeat(text, n) == IF n <= 0 THEN "" ELSE text \o Repeat(text, n - 1)

closeTagAt_Always(depth, tag) == "</" \o tag \o ">"

\* What a close marker met at the given depth adds to the result.
closeTagAt(depth, tag) == IF depth > 0 THEN "</" \o tag \o ">" ELSE ""

RECURSIVE scanTokens(_, _, _, _)
\* The rest of the result of one pass of applyFormattingTokens: remaining is
\* s from position i on and depth the number of open tags.
scanTokens(s, i, depth, token) ==
  IF i > Len(s) THEN Repeat("</" \o token.tag \o ">", depth)
  ELSE Val({
    IF openIndex = 0 /\ closeIndex = 0
    THEN SubSeq(s, i, Len(s)) \o Repeat("</" \o token.tag \o ">", depth)
    ELSE Val({
      IF useOpen
      THEN SubSeq(s, i, openIndex - 1) \o "<" \o token.tag \o ">"
             \o scanTokens(s, openIndex + Len(token.open), depth + 1, token)
      ELSE Val({
        SubSeq(s, i, closeIndex - 1) \o closeTagAt(depth, token.tag)
          \o scanTokens(s, closeIndex + Len(token.close), nextDepth, token)
        : nextDepth \in {IF depth > 0 THEN depth - 1 ELSE depth}})
      : useOpen \in {openIndex # 0 /\ (closeIndex = 0 \/ openIndex < closeIndex)}})
    : openIndex \in {IndexFrom(s, token.open, i)},
      closeIndex \in {IndexFrom(s, token.close, i)}})

applyFormattingTokens(input) ==
  IF input = "" THEN ""
  ELSE Val({scanTokens(output, 1, 0, FormattingTokens[2])
            : output \in {scanTokens(input, 1, 0, FormattingTokens[1])}})

(***************************************************************************)
(* toRichHtml: sanitize-html with the sanitizeOptions of the module, then  *)
(* cleanEmptyHtml. The parser of the library reads a tag as "<", a name,   *)
(* attributes name="value" and ">"; the inputs below are written so.       *)
(***************************************************************************)
allowedTags ==
  {"p", "br", "strong", "b", "em", "i", "u", "ul", "ol", "li", "a", "blockquote",
   "code", "pre", "span", "hr", "sup", "sub", "h1", "h2", "h3", "h4", "h5", "h6",
   "table", "thead", "tbody", "tr", "th", "td", "dl", "dt", "dd", "figure",
   "figcaption", "img"}

allowedAttributes(name) ==
  IF name = "a" THEN {"href", "title", "target", "rel"}
  ELSE IF name = "img" THEN {"src", "alt", "title", "width", "height", "loading"}
  ELSE IF name \in {"td", "th"} THEN {"colspan", "rowspan"}
  ELSE {}

allowedSchemes_WithJavascript == {"http", "https", "mailto", "javascript"}

allowedSchemes == {"http", "https", "mailto"}

\* The defaults of sanitize-html the options leave alone: the elements
\* dropped with their content, the elements written without a closing tag
\* and the attributes whose scheme is checked.
nonTextTags == {"script", "style", "textarea", "option"}
selfClosing == {"img", "br", "hr", "area", "base", "basefont", "input", "link", "meta"}
schemeAttributes == {"href", "src", "cite"}

\* The character of s at position i, "" outside of s.
CharIn(s, i) == IF 1 <= i /\ i <= Len(s) THEN SubSeq(s, i, i) ELSE ""

IsLetter(c) == c \in LowerLetters \/ c \in UpperLetters
IsNameChar(c) == IsLetter(c) \/ IsDigit(c)
IsSchemeChar(c) == IsNameChar(c) \/ (c # "" /\ c \in {".", "-", "+"})
IsAttrNameChar(c) == c # "" /\ ~IsSpace(c) /\ c \notin {"=", ">", "/", "\""}
IsSpaceOrSlash(c) == IsSpace(c) \/ c = "/"

MatchEscaped(s, i) == IF CharAt(s, i) \in {"&", "<", ">"} THEN i ELSE 0
MatchEscapedQuote(s, i) == IF CharAt(s, i) \in {"&", "<", ">", "\""} THEN i ELSE 0
ToEscaped(c) ==
  IF c = "&" THEN "&amp;" ELSE IF c = "<" THEN "&lt;" ELSE IF c = ">" THEN "&gt;" ELSE "&quot;"

\* escapeHtml of sanitize-html for a text and for an attribute value
escapeText(text) == ReplaceAll(text, MatchEscaped, ToEscaped)
escapeValue(text) == ReplaceAll(text, MatchEscapedQuote, ToEscaped)

MatchSpace(s, i) == IF IsSpace(CharAt(s, i)) THEN RunEnd(s, i, IsSpace) ELSE 0

\* The scheme of a URL in lower case, "" for a URL with none (naughtyHref).
schemeOf(href) ==
  Val({IF IsLetter(CharIn(stripped, 1))
       THEN Val({IF At(stripped, e + 1, ":") THEN toLowerCase(SubSeq(stripped, 1, e)) ELSE ""
                 : e \in {RunEnd(stripped, 1, IsSchemeChar)}})
       ELSE ""
       : stripped \in {ReplaceAll(href, MatchSpace, ToNothing)}})

naughtyHref(href) == schemeOf(href) # "" /\ schemeOf(href) \notin allowedSchemes

RECURSIVE AttrsFrom(_, _, _)
\* The attributes the parser reads between position i and position e of s,
\* in their order, with names in lower case and values decoded.
AttrsFrom(s, i, e) ==
  Val({IF j > e THEN <<>>
       ELSE Val({
         IF nameEnd < j THEN AttrsFrom(s, j + 1, e)
         ELSE IF At(s, nameEnd + 1, "=\"")
         THEN Val({<<[name |-> toLowerCase(SubSeq(s, j, nameEnd)),
                     value |-> decodeHtml(SubSeq(s, nameEnd + 3, q - 1))]>>
                   \o AttrsFrom(s, q + 1, e)
                   : q \in {IndexFrom(s, "\"", nameEnd + 3)}})
         ELSE <<[name |-> toLowerCase(SubSeq(s, j, nameEnd)), value |-> ""]>>
              \o AttrsFrom(s, nameEnd + 1, e)
         : nameEnd \in {RunEnd(s, j, IsAttrNameChar)}})
       : j \in {RunEnd(s, i, IsSpaceOrSlash) + 1}})

\* attribs with the attribute name set to value ({...attribs, name: value})
SetAttr(attribs, name, value) ==
  IF \E n \in 1..Len(attribs) : attribs[n].name = name
  THEN [n \in 1..Len(attribs) |->
          IF attribs[n].name = name THEN [name |-> name, value |-> value] ELSE attribs[n]]
  ELSE Append(attribs, [name |-> name, value |-> value])

\* transformTags: every a gets target and rel, the other tags are unchanged.
transformTags(tagName, attribs) ==
  IF tagName = "a"
  THEN SetAttr(SetAttr(attribs, "target", "_blank"), "rel", "noopener noreferrer")
  ELSE attribs

RECURSIVE attrsText(_, _, _)
\* The attributes of a tag as the sanitizer writes them, from the n-th on.
attrsText(tagName, attribs, n) ==
  IF n > Len(attribs) THEN ""
  ELSE (IF /\ attribs[n].name \in allowedAttributes(tagName)
           /\ ~(attribs[n].name \in schemeAttributes /\ naughtyHref(attribs[n].value))
        THEN " " \o attribs[n].name \o
             (IF attribs[n].value = "" THEN ""
              ELSE "=\"" \o escapeValue(attribs[n].value) \o "\"")
        ELSE "")
       \o attrsText(tagName, attribs, n + 1)

RECURSIVE Closers(_, _, _)
\* The closing tags of the open elements from the from-th down to the to-th.
Closers(stack, from, to) ==
  IF from < to THEN ""
  ELSE (IF stack[from].kept THEN "</" \o stack[from].name \o ">" ELSE "")
       \o Closers(stack, from - 1, to)

\* The sanitizer at position i of its input, with the open elements and
\* the output written so far; Wrote is st after text is written.
Wrote(st, text, i, stack) == [i |-> i, stack |-> stack, out |-> st.out \o text]

\* An opening tag from lt to gt: dropped with its content, dropped alone,
\* or written with the attributes that are allowed.
openTag(s, lt, gt, st) ==
  Val({Val({
    IF name \in nonTextTags /\ name \notin allowedTags
    THEN Val({IF close = 0 THEN Wrote(st, "", Len(s) + 1, st.stack)
              ELSE Val({Wrote(st, "", IF after = 0 THEN Len(s) + 1 ELSE after + 1, st.stack)
                        : after \in {IndexFrom(s, ">", close)}})
              : close \in {IndexFrom(s, "</" \o name, gt)}})
    ELSE Wrote(st,
               IF name \in allowedTags
               THEN "<" \o name
                    \o attrsText(name, transformTags(name, AttrsFrom(s, nameEnd + 1, gt - 1)), 1)
                    \o (IF name \in selfClosing THEN " />" ELSE ">")
               ELSE "",
               gt + 1,
               IF name \in selfClosing THEN st.stack
               ELSE Append(st.stack, [name |-> name, kept |-> name \in allowedTags]))
    : name \in {toLowerCase(SubSeq(s, lt + 1, nameEnd))}})
    : nameEnd \in {RunEnd(s, lt + 1, IsNameChar)}})

\* A closing tag from lt to gt: it closes the open elements down to the
\* last one of its name and is ignored when there is none.
closeTag(s, lt, gt, st) ==
  Val({Val({
    IF opened = {} THEN Wrote(st, "", gt + 1, st.stack)
    ELSE Val({Wrote(st, Closers(st.stack, Len(st.stack), top), gt + 1,
                    SubSeq(st.stack, 1, top - 1))
              : top \in {CHOOSE n \in opened : \A m \in opened : n >= m}})
    : opened \in {{n \in 1..Len(st.stack) : st.stack[n].name = name}}})
    : name \in {toLowerCase(SubSeq(s, lt + 2, RunEnd(s, lt + 2, IsNameChar)))}})

\* The sanitizer after what starts with the "<" at position lt.
tagAt(s, lt, st) ==
  Val({
    IF ~(IsLetter(c) \/ c \in {"/", "!", "?"}) THEN Wrote(st, "&lt;", lt + 1, st.stack)
    ELSE IF gt = 0 THEN Wrote(st, "", Len(s) + 1, st.stack)
    ELSE IF IsLetter(c) THEN openTag(s, lt, gt, st)
    ELSE IF c = "/" THEN closeTag(s, lt, gt, st)
    ELSE Wrote(st, "", gt + 1, st.stack)
    : c \in {CharIn(s, lt + 1)}, gt \in {IndexFrom(s, ">", lt)}})

\* The sanitizer after the text up to the next "<" and what starts there.
sanitizeStep(s, st) ==
  Val({
    IF lt = 0
    THEN Wrote(st, escapeText(decodeHtml(SubSeq(s, st.i, Len(s)))), Len(s) + 1, st.stack)
    ELSE Val({tagAt(s, lt, before)
              : before \in {Wrote(st, escapeText(decodeHtml(SubSeq(s, st.i, lt - 1))),
                                  lt, st.stack)}})
    : lt \in {IndexFrom(s, "<", st.i)}})

RECURSIVE sanitizeFrom(_, _)
\* The output for s from the state st on: at the end of the input the
\* elements still open are closed.
sanitizeFrom(s, st) ==
  IF st.i > Len(s) THEN st.out \o Closers(st.stack, Len(st.stack), 1)
  ELSE Val({sanitizeFrom(s, next) : next \in {sanitizeStep(s, st)}})

\* sanitizeHtml(decoded, sanitizeOptions)
sanitizeHtml(decoded) ==
  Val({sanitizeFrom(text, [i |-> 1, stack |-> <<>>, out |-> ""]) : text \in {decoded}})

EmptyTagNames ==
  {"span", "p", "div", "section", "article", "strong", "b", "em", "i", "u",
   "blockquote", "code", "pre", "figure", "figcaption"}

RECURSIVE FillEnd(_, _)
\* (?:\s|&nbsp;|<br\s*\/?>)* from position j on: the last position it takes
\* (j - 1 when it takes nothing).
FillEnd(s, j) ==
  Val({IF step = 0 THEN j - 1 ELSE FillEnd(s, step)
       : step \in {IF IsSpace(CharIn(s, j)) THEN j + 1
                   ELSE IF At(s, j, "&nbsp;") THEN j + 6
                   ELSE IF MatchBr(s, j) # 0 THEN MatchBr(s, j) + 1
                   ELSE 0}})

\* emptyTagPattern: an element of EmptyTagNames that holds nothing but
\* blanks, &nbsp; and line breaks.
MatchEmptyTag(s, i) ==
  IF ~At(s, i, "<") THEN 0
  ELSE Val({
    IF name \notin EmptyTagNames THEN 0
    ELSE Val({
      IF gt = 0 THEN 0
      ELSE Val({
        IF /\ f + Len(name) + 3 <= Len(s)
           /\ toLowerCase(SubSeq(s, f + 1, f + Len(name) + 3)) = "</" \o name \o ">"
        THEN f + Len(name) + 3
        ELSE 0
        : f \in {FillEnd(s, gt + 1)}})
      : gt \in {IndexFrom(s, ">", i)}})
    : name \in {toLowerCase(SubSeq(s, i + 1, RunEnd(s, i + 1, IsWordChar)))}})

RECURSIVE BrRunEnd(_, _, _)
\* (?:<br\s*\/?>\s*)* from position j on after count line breaks: the last
\* position taken when the line breaks are two or more, 0 otherwise.
BrRunEnd(s, j, count) ==
  Val({IF br = 0 THEN (IF count >= 2 THEN j - 1 ELSE 0)
       ELSE BrRunEnd(s, RunEnd(s, br + 1, IsSpace) + 1, count + 1)
       : br \in {MatchBr(s, j)}})

\* /(?:<br\s*\/?>\s*){2,}/gi
MatchBrs(s, i) == BrRunEnd(s, i, 0)

ToBr(match) == "<br />"

removeEmptyTags_OnePass(previous) == ReplaceAll(previous, MatchEmptyTag, ToNothing)

RECURSIVE removeEmptyTags(_)
\* The do-while of cleanEmptyHtml: the pattern is removed until nothing changes.
removeEmptyTags(previous) ==
  Val({IF output = previous THEN output ELSE removeEmptyTags(output)
       : output \in {ReplaceAll(previous, MatchEmptyTag, ToNothing)}})

cleanEmptyHtml(html) ==
  IF html = "" THEN ""
  ELSE Trim(ReplaceAll(removeEmptyTags(html), MatchBrs, ToBr))

RECURSIVE passesOf(_)
\* The number of times the body of the do-while runs for previous.
passesOf(previous) ==
  Val({IF output = previous THEN 1 ELSE 1 + passesOf(output)
       : output \in {ReplaceAll(previous, MatchEmptyTag, ToNothing)}})

toRichHtml(value) ==
  Val({IF decoded = "" THEN "" ELSE Trim(cleanEmptyHtml(sanitizeHtml(decoded)))
       : decoded \in {decodeHtml(value)}})

(***************************************************************************)
(* highlightTimestampsInHtml                                               *)
(***************************************************************************)
\* /(<[^>]+>)/: a tag segment from position i, 0 when none starts there.
MatchTagSegment(s, i) ==
  IF At(s, i, "<") /\ i + 1 <= Len(s) /\ ~At(s, i + 1, ">")
  THEN IndexFrom(s, ">", i + 2)
  ELSE 0

\* /(\d{1,2}:\d{2}(?::\d{2})?)/
MatchTime(s, i) ==
  IF ~IsDigit(CharIn(s, i)) THEN 0
  ELSE Val({IF colon = 0 \/ ~IsDigit(CharIn(s, colon + 1)) \/ ~IsDigit(CharIn(s, colon + 2))
            THEN 0
            ELSE IF /\ At(s, colon + 3, ":")
                    /\ IsDigit(CharIn(s, colon + 4)) /\ IsDigit(CharIn(s, colon + 5))
            THEN colon + 5
            ELSE colon + 2
            : colon \in {IF At(s, i + 1, ":") THEN i + 1
                         ELSE IF IsDigit(CharIn(s, i + 1)) /\ At(s, i + 2, ":") THEN i + 2
                         ELSE 0}})

ToButton(match) ==
  "<button class=\"timestamp\" type=\"button\" data-timestamp=\"" \o match \o "\">"
    \o match \o "</button>"

IsNoQuote(c) == c # "" /\ c \notin {"\"", "'"}

\* \b before the word that starts at position p of s
WordStartsAt(s, p) == IsWordChar(CharIn(s, p)) /\ ~IsWordChar(CharIn(s, p - 1))
\* \b after the word that ends at position p of s
WordEndsAt(s, p) == IsWordChar(CharIn(s, p)) /\ ~IsWordChar(CharIn(s, p + 1))

\* /^<\s*\/\s*([a-z0-9:-]+)/i
closingMatch(segment) ==
  Val({At(segment, slash, "/") /\
       Val({IsNameChar(c) \/ (c # "" /\ c \in {":", "-"})
            : c \in {CharIn(segment, RunEnd(segment, slash + 1, IsSpace) + 1)}})
       : slash \in {RunEnd(segment, 2, IsSpace) + 1}})

isSelfClosing_SlashOnly(tag) ==
  \E p \in 1..Len(tag) :
    At(tag, p, "/") /\ RunEnd(tag, p + 1, IsSpace) + 1 = Len(tag) /\ At(tag, Len(tag), ">")

\* /\/\s*>$/.test(tag) || /^<\s*(br|hr)\b/i.test(tag)
isSelfClosing(tag) ==
  \/ \E p \in 1..Len(tag) :
       At(tag, p, "/") /\ RunEnd(tag, p + 1, IsSpace) + 1 = Len(tag) /\ At(tag, Len(tag), ">")
  \/ Val({/\ toLowerCase(SubSeq(tag, n, Min(n + 1, Len(tag)))) \in {"br", "hr"}
          /\ ~IsWordChar(CharIn(tag, n + 2))
          : n \in {RunEnd(tag, 2, IsSpace) + 1}})

isTimestampTag_Never(tag) == FALSE

\* /\bclass\s*=\s*["'][^"']*\btimestamp\b[^"']*["']/i.test(tag) ||
\* /\bdata-timestamp\s*=/i.test(tag)
isTimestampTag(tag) ==
  Val({
    \/ \E p \in 1..Len(low) :
         /\ At(low, p, "class") /\ WordStartsAt(low, p)
         /\ Val({/\ At(low, eq, "=")
                 /\ Val({/\ CharIn(low, open) \in {"\"", "'"}
                         /\ Val({/\ CharIn(low, close) \in {"\"", "'"}
                                 /\ \E k \in (open + 1)..(close - 9) :
                                      /\ At(low, k, "timestamp")
                                      /\ WordStartsAt(low, k) /\ WordEndsAt(low, k + 8)
                                 : close \in {RunEnd(low, open + 1, IsNoQuote) + 1}})
                         : open \in {RunEnd(low, eq + 1, IsSpace) + 1}})
                 : eq \in {RunEnd(low, p + 5, IsSpace) + 1}})
    \/ \E p \in 1..Len(low) :
         /\ At(low, p, "data-timestamp") /\ WordStartsAt(low, p)
         /\ At(low, RunEnd(low, p + 14, IsSpace) + 1, "=")
    : low \in {toLowerCase(tag)}})

\* html.split(/(<[^>]+>)/g): the positions where the tag segments start, in
\* order. A "<" inside a tag segment starts none.
tagStarts(html) ==
  Val({Val({[k \in 1..Cardinality(starts) |->
               CHOOSE j \in starts : Cardinality({x \in starts : x <= j}) = k]
            : starts \in {{j \in candidates :
                             ~\E k \in candidates : k < j /\ MatchTagSegment(html, k) >= j}}})
       : candidates \in {{k \in 1..Len(html) : MatchTagSegment(html, k) > 0}}})

\* The k-th tag segment of the parts.
tagPart(html, starts, k) == SubSeq(html, starts[k], MatchTagSegment(html, starts[k]))

\* The text between the k-th tag segment and the next one; the text before
\* the first tag segment for k = 0.
textPart(html, starts, k) ==
  SubSeq(html,
         IF k = 0 THEN 1 ELSE MatchTagSegment(html, starts[k]) + 1,
         IF k = Len(starts) THEN Len(html) ELSE starts[k + 1] - 1)

\* What the callback of map does to stack and timestampDepth for a segment.
afterSegment(segment, st) ==
  IF ~At(segment, 1, "<") THEN st
  ELSE IF closingMatch(segment)
  THEN [stack |-> IF st.stack = <<>> THEN <<>>
                  ELSE SubSeq(st.stack, 1, Len(st.stack) - 1),
        timestampDepth |->
          IF st.stack # <<>> /\ st.stack[Len(st.stack)] /\ st.timestampDepth > 0
          THEN st.timestampDepth - 1 ELSE st.timestampDepth]
  ELSE IF isSelfClosing(segment) THEN st
  ELSE Val({[stack |-> Append(st.stack, isTimestamp),
             timestampDepth |-> IF isTimestamp THEN st.timestampDepth + 1
                                ELSE st.timestampDepth]
            : isTimestamp \in {isTimestampTag(segment)}})

\* What the callback of map returns for a segment it is called for with st.
mapSegment(segment, st) ==
  IF segment = "" \/ At(segment, 1, "<") \/ st.timestampDepth > 0 THEN segment
  ELSE ReplaceAll(segment, MatchTime, ToButton)

RECURSIVE statesFrom(_, _, _, _)
\* stack and timestampDepth when the callback is called for the text after
\* the k-th tag segment and for every text after it; st is their value for
\* the first of these.
statesFrom(html, starts, k, st) ==
  IF k >= Len(starts) THEN <<st>>
  ELSE Val({<<st>> \o statesFrom(html, starts, k + 1, next)
            : next \in {afterSegment(tagPart(html, starts, k + 1),
                                     afterSegment(textPart(html, starts, k), st))}})

RECURSIVE joinParts(_, _, _, _, _)
\* parts.map(...).join("") for the texts lo..hi and the tag segment after each.
joinParts(html, starts, states, lo, hi) ==
  IF lo = hi
  THEN mapSegment(textPart(html, starts, lo), states[lo + 1])
         \o (IF lo < Len(starts) THEN tagPart(html, starts, lo + 1) ELSE "")
  ELSE joinParts(html, starts, states, lo, (lo + hi) \div 2)
         \o joinParts(html, starts, states, (lo + hi) \div 2 + 1, hi)

highlightTimestampsInHtml(html) ==
  IF html = "" THEN ""
  ELSE Val({Val({joinParts(html, starts, states, 0, Len(starts))
                 : states \in {statesFrom(html, starts, 0, [stack |-> <<>>, timestampDepth |-> 0])}})
            : starts \in {tagStarts(html)}})

(***************************************************************************)
(* The description built from plain text: buildHtmlFromPlainText and the   *)
(* fallback path of buildEpisodeDescriptionHtml.                           *)
(***************************************************************************)
BLOCKQUOTE_OPEN_TOKEN == "__BLOCKQUOTE_OPEN__"
BLOCKQUOTE_CLOSE_TOKEN == "__BLOCKQUOTE_CLOSE__"

\* The five replacements of escapeHtml on one character ("&" is replaced
\* first, so the "&" of the other entities is not replaced again).
EscapeChar(c) ==
  IF c = "&" THEN "&amp;"
  ELSE IF c = "<" THEN "&lt;"
  ELSE IF c = ">" THEN "&gt;"
  ELSE IF c = "\"" THEN "&quot;"
  ELSE IF c = "'" THEN "&#39;"
  ELSE c

RECURSIVE EscapeRange(_, _, _)
EscapeRange(s, lo, hi) ==
  IF lo > hi THEN ""
  ELSE IF lo = hi THEN EscapeChar(CharAt(s, lo))
  ELSE EscapeRange(s, lo, (lo + hi) \div 2) \o EscapeRange(s, (lo + hi) \div 2 + 1, hi)

escapeHtml(value) == Val({EscapeRange(text, 1, Len(text)) : text \in {value}})

\* \d{1,2}:\d{2}(?::\d{2})?(?![0-9:]) from position t: the last position
\* of the time, 0 when there is none. (When the lookahead fails after the
\* seconds it fails without them as well: the next character is then ":".)
TimeEndAt(s, t) ==
  Val({IF e # 0 /\ ~IsDigit(CharIn(s, e + 1)) /\ ~At(s, e + 1, ":") THEN e ELSE 0
       : e \in {MatchTime(s, t)}})

\* /(^|[^0-9])(\d{1,2}:\d{2}(?::\d{2})?)(?![0-9:])/ from position i
MatchPlainTime(s, i) ==
  IF i = 1 /\ TimeEndAt(s, 1) # 0 THEN TimeEndAt(s, 1)
  ELSE IF CharIn(s, i) # "" /\ ~IsDigit(CharIn(s, i)) THEN TimeEndAt(s, i + 1)
  ELSE 0

\* `${prefix}<button ...>${time}</button>`: the prefix is the character
\* before the time, if the match has one.
ToPlainButton(match) ==
  IF IsDigit(CharAt(match, 1)) THEN ToButton(match)
  ELSE CharAt(match, 1) \o ToButton(SubSeq(match, 2, Len(match)))

highlightTimestampsInPlainText(html) == ReplaceAll(html, MatchPlainTime, ToPlainButton)

MatchNewline(s, i) == IF At(s, i, "\n") THEN i ELSE 0
ToBrTag(match) == "<br />"

wrapParagraph_NoEscape(paragraph) ==
  "<p>" \o highlightTimestampsInPlainText(applyFormattingTokens(
             ReplaceAll(paragraph, MatchNewline, ToBrTag))) \o "</p>"

\* wrapParagraph of buildHtmlFromPlainText, escapeHtmlFn being escapeHtml.
wrapParagraph(paragraph) ==
  "<p>" \o highlightTimestampsInPlainText(applyFormattingTokens(
             ReplaceAll(escapeHtml(paragraph), MatchNewline, ToBrTag))) \o "</p>"

RECURSIVE SplitBlankLines(_, _)
\* text.split(/\n{2,}/) from position from on
SplitBlankLines(s, from) ==
  Val({IF i = 0 THEN <<SubSeq(s, from, Len(s))>>
       ELSE <<SubSeq(s, from, i - 1)>> \o SplitBlankLines(s, RunEnd(s, i, IsNewline) + 1)
       : i \in {IndexFrom(s, "\n\n", from)}})

RECURSIVE TrimAll(_, _)
\* .map((segment) => segment.trim()).filter(Boolean) from the i-th segment on
TrimAll(segments, i) ==
  IF i > Len(segments) THEN <<>>
  ELSE Val({(IF trimmed = "" THEN <<>> ELSE <<trimmed>>) \o TrimAll(segments, i + 1)
            : trimmed \in {Trim(segments[i])}})

paragraphsOf(text) == TrimAll(SplitBlankLines(text, 1), 1)

\* The variables of the forEach of buildHtmlFromPlainText.
NoParagraphs == [htmlParagraphs |-> <<>>, blockquoteBuffer |-> <<>>, insideBlockquote |-> FALSE]

flushBlockquote(st) ==
  IF st.blockquoteBuffer = <<>>
  THEN [st EXCEPT !.insideBlockquote = FALSE]
  ELSE [htmlParagraphs |-> Append(st.htmlParagraphs,
                            "<blockquote>" \o Concat(st.blockquoteBuffer, 1) \o "</blockquote>"),
        blockquoteBuffer |-> <<>>,
        insideBlockquote |-> FALSE]

onParagraph_OpenKeepsBuffer(st, paragraph) ==
  IF paragraph = BLOCKQUOTE_OPEN_TOKEN
  THEN [st EXCEPT !.insideBlockquote = TRUE]
  ELSE IF paragraph = BLOCKQUOTE_CLOSE_TOKEN
  THEN IF st.insideBlockquote THEN flushBlockquote(st) ELSE st
  ELSE IF st.insideBlockquote
  THEN [st EXCEPT !.blockquoteBuffer = Append(@, wrapParagraph(paragraph))]
  ELSE [st EXCEPT !.htmlParagraphs = Append(@, wrapParagraph(paragraph))]

\* The callback of paragraphs.forEach.
onParagraph(st, paragraph) ==
  IF paragraph = BLOCKQUOTE_OPEN_TOKEN
  THEN [(IF st.insideBlockquote /\ st.blockquoteBuffer # <<>> THEN flushBlockquote(st) ELSE st)
          EXCEPT !.insideBlockquote = TRUE]
  ELSE IF paragraph = BLOCKQUOTE_CLOSE_TOKEN
  THEN IF st.insideBlockquote THEN flushBlockquote(st) ELSE st
  ELSE IF st.insideBlockquote
  THEN [st EXCEPT !.blockquoteBuffer = Append(@, wrapParagraph(paragraph))]
  ELSE [st EXCEPT !.htmlParagraphs = Append(@, wrapParagraph(paragraph))]

RECURSIVE forEachParagraph(_, _, _)
forEachParagraph(paragraphs, i, st) ==
  IF i > Len(paragraphs) THEN st
  ELSE Val({forEachParagraph(paragraphs, i + 1, next) : next \in {onParagraph(st, paragraphs[i])}})

DESCRIPTION_OPEN == "<div class=\"episode-detail-description\">"

buildHtmlFromPlainText(text) ==
  IF text = "" THEN ""
  ELSE Val({
    IF paragraphs = <<>> THEN ""
    ELSE Val({Val({IF done.htmlParagraphs = <<>> THEN ""
                   ELSE DESCRIPTION_OPEN \o Concat(done.htmlParagraphs, 1) \o "</div>"
                   : done \in {IF st.insideBlockquote /\ st.blockquoteBuffer # <<>>
                               THEN flushBlockquote(st) ELSE st}})
              : st \in {forEachParagraph(paragraphs, 1, NoParagraphs)}})
    : paragraphs \in {paragraphsOf(text)}})

\* buildEpisodeDescriptionHtml({ html, fallbackText, escapeHtml })
buildEpisodeDescriptionHtml(html, fallbackText) ==
  Val({IF sanitizedHtml # ""
       THEN DESCRIPTION_OPEN \o highlightTimestampsInHtml(sanitizedHtml) \o "</div>"
       ELSE Val({IF safeFallback = "" THEN "" ELSE buildHtmlFromPlainText(safeFallback)
                 : safeFallback \in {Trim(fallbackText)}})
       : sanitizedHtml \in {Trim(html)}})

(***************************************************************************)
(* The two routes. A value of the query is absent (Undefined) or a string. *)
(***************************************************************************)
PODCAST_CACHE_SECONDS == 60 * 60 * 48
EPISODES_CACHE_SECONDS == 60 * 60 * 36

\* The messages of the routes.
ERR_NO_URL == "please provide the RSS address (url)"
ERR_PARSE == "failed to parse RSS"

\* The numbers of the handlers are doubles. An integer below Large is
\* itself; Large stands for every finite number from 10^9 on, and Infinity
\* for the double Infinity.
Large == 10^9
Infinity == 2^30

IsZero(c) == c = "0"

\* The digits a double can hold: a run of more than MaxDoubleDigits
\* significant digits, or of MaxDoubleDigits from 1.797693134862315808e308
\* on (compared on 18 digits), is Infinity.
MaxDoubleDigits == 309

\* The value of the run of digits of text from position from on.
DigitsValue(text, from) ==
  Val({Val({
    IF last - zeros <= 9 THEN ParseDigits(text, from, 0)
    ELSE IF last - zeros > MaxDoubleDigits THEN Infinity
    ELSE IF last - zeros < MaxDoubleDigits THEN Large
    ELSE Val({Val({IF hi > 179769313 \/ (hi = 179769313 /\ lo > 486231580)
                   THEN Infinity ELSE Large
                   : lo \in {ParseDigits(SubSeq(text, zeros + 10, zeros + 18), 1, 0)}})
              : hi \in {ParseDigits(SubSeq(text, zeros + 1, zeros + 9), 1, 0)}})
    : zeros \in {RunEnd(text, from, IsZero)}})
    : last \in {RunEnd(text, from, IsDigit)}})

\* Number.parseInt(text, 10): blanks, a sign and digits; nan without a digit.
NumberParseInt(text) ==
  Val({Val({
    IF IsDigit(CharIn(text, digits))
    THEN [nan |-> FALSE,
          value |-> IF At(text, first, "-") THEN 0 - DigitsValue(text, digits)
                    ELSE DigitsValue(text, digits)]
    ELSE [nan |-> TRUE, value |-> 0]
    : digits \in {IF At(text, first, "-") \/ At(text, first, "+") THEN first + 1 ELSE first}})
    : first \in {RunEnd(text, 1, IsSpace) + 1}})

\* value ?? fallback, as a string
OrElse(value, fallback) == IF value.kind = "undefined" THEN fallback ELSE value.text

isRefreshRequested_Never(value) == FALSE

isRefreshRequested(value) ==
  IF value.kind = "undefined" THEN FALSE
  ELSE Val({normalized # "" /\ normalized \notin {"0", "false", "no"}
            : normalized \in {toLowerCase(Trim(value.text))}})

\* The Cache-Control header setCacheHeader and disableCache set.
setCacheHeader(seconds) == "public, s-maxage=" \o DecStr(seconds) \o ", max-age=0"
disableCache == "no-store"

\* A value that counts as true: an array and an object always do, a string
\* when it is not empty.
Truthy(value) == value.kind \in {"array", "object"} \/ (value.kind = "string" /\ value.text # "")

\* const website = channel?.link || channel?.["itunes:link"] ||
\*   (Array.isArray(channel?.link) ? channel?.link?.[0] : "")
\* on what the parser gives for <link> and <itunes:link>: nothing, a text,
\* an object for an element with attributes, and for several elements an
\* array, of which text is the first element.
websiteOf(link, itunesLink) ==
  IF Truthy(link) THEN link
  ELSE IF Truthy(itunesLink) THEN itunesLink
  ELSE IF link.kind = "array" THEN [kind |-> "string", text |-> link.text]
  ELSE [kind |-> "string", text |-> ""]

\* (The channels of the feeds have one <link> at most, link being its text,
\* and no <itunes:link>.)
extractPodcastInfo(rssData, rssUrl) ==
  LET channel == getChannelInfo(rssData)
  IN  [name |-> channel.title, author |-> channel.author, rss |-> rssUrl,
       image |-> channel.image,
       website |-> websiteOf([kind |-> "string", text |-> channel.link],
                             [kind |-> "undefined", text |-> ""]).text,
       description_html |-> toRichHtml(channel.description),
       description_text |-> toText(channel.description)]

hasPodcastInfo(podcast) ==
  \/ podcast.name # "" \/ podcast.author # "" \/ podcast.image # ""
  \/ podcast.website # "" \/ podcast.description_html # "" \/ podcast.description_text # ""

\* No response yet, and the response of a handler: the status, the
\* Cache-Control header ("" when it is not set) and the body.
NoResponse == [sent |-> FALSE, status |-> 0, cacheControl |-> "", body |-> [error |-> ""]]
Sent(code, header, body) ==
  [sent |-> TRUE, status |-> code, cacheControl |-> header, body |-> body]

\* if (!url): the answer to a request without url
badRequest == Sent(400, "", [error |-> ERR_NO_URL])

\* The catch block of both handlers.
failure(message) == Sent(502, disableCache, [error |-> Or(message, ERR_PARSE)])

\* What parser.parse gives: it throws, or it returns a tree.
ParseThrows(message) == [threw |-> TRUE, message |-> message, tree |-> NoChannelTree]
ParseGives(tree) == [threw |-> FALSE, message |-> "", tree |-> tree]

\* router.get("/") after the await: settled is the promise of fetchRss and
\* parsed what the parser gives for its text.
podcastResponse(query, settled, parsed) ==
  IF settled.state = "rejected" THEN failure(settled.value)
  ELSE IF parsed.threw THEN failure(parsed.message)
  ELSE Val({Sent(200,
                 IF isRefreshRequested(query.refresh) \/ ~hasPodcastInfo(podcast)
                 THEN disableCache ELSE setCacheHeader(PODCAST_CACHE_SECONDS),
                 [podcast |-> podcast])
            : podcast \in {extractPodcastInfo(parsed.tree, query.url.text)}})

safeCursorOf(cursor) ==
  Val({IF parsedCursor.nan \/ parsedCursor.value < 0 THEN 0 ELSE parsedCursor.value
       : parsedCursor \in {NumberParseInt(OrElse(cursor, "0"))}})

safeLimitOf(limit) ==
  Val({IF parsedLimit.nan \/ parsedLimit.value < 1 THEN PER_PAGE
       ELSE Min(parsedLimit.value, MAX_LIMIT)
       : parsedLimit \in {NumberParseInt(OrElse(limit, DecStr(PER_PAGE)))}})

hasMoreOf_Always(start, count, total) == TRUE

\* const hasMore = start + episodes.length < total
hasMoreOf(start, count, total) == start + count < total

\* const nextCursor = hasMore ? start + episodes.length : null
nextCursorOf(start, count, hasMore) == IF hasMore THEN start + count ELSE Null

\* JSON.stringify of a number: null for Infinity.
jsonNumber(n) == IF n >= Infinity THEN Null ELSE n

\* router.get("/episodes") after the await.
episodesResponse(query, settled, parsed) ==
  IF settled.state = "rejected" THEN failure(settled.value)
  ELSE IF parsed.threw THEN failure(parsed.message)
  ELSE Val({Val({Val({
         Sent(200,
              IF isRefreshRequested(query.refresh) \/ Len(page.episodes) = 0
              THEN disableCache ELSE setCacheHeader(EPISODES_CACHE_SECONDS),
              [podcast |-> extractPodcastInfo(parsed.tree, query.url.text),
               pagination |-> [cursor |-> jsonNumber(start), limit |-> jsonNumber(safeLimit),
                               nextCursor |-> nextCursorOf(start, Len(page.episodes), hasMore),
                               hasMore |-> hasMore],
               episodes |-> page.episodes])
         : hasMore \in {hasMoreOf(start, Len(page.episodes), page.total)}})
         : page \in {extractEpisodesPage(parsed.tree, start, safeLimit)}})
         : start \in {safeCursorOf(query.cursor)}, safeLimit \in {safeLimitOf(query.limit)}})

\* The response of the handler of an endpoint.
responseOf(endpoint, query, settled, parsed) ==
  IF endpoint = "/" THEN podcastResponse(query, settled, parsed)
  ELSE episodesResponse(query, settled, parsed)

(***************************************************************************)
(* The text functions applied to bounded inputs.                           *)
(***************************************************************************)
\* The texts of the paragraphs of the inputs.
ParagraphTexts == {"Hi", "There", "a &amp; b"}

PairOfParagraphs(a, b) == "<p>" \o a \o "</p><p>" \o b \o "</p>"

\* The raw descriptions toText is applied to.
TextInputs ==
  {PairOfParagraphs(a, b) : a, b \in ParagraphTexts} \cup
  {"<p>" \o a \o "</p>\n<p>" \o b \o "</p>" : a, b \in ParagraphTexts} \cup
  {"<P>" \o a \o "</P>\r\n\r\n\r\n<P>" \o b \o "</P>" : a, b \in ParagraphTexts} \cup
  {a \o "<br>" \o b : a, b \in ParagraphTexts} \cup
  {a \o " \t\n\n\n\n<BR />" \o b : a, b \in ParagraphTexts} \cup
  {"<div>" \o a \o "</div><ul><li>" \o b \o "</li></ul>" : a, b \in ParagraphTexts} \cup
  {"&lt;p&gt;" \o a \o "&lt;/p&gt;&lt;p&gt;" \o b \o "&lt;/p&gt;" : a, b \in ParagraphTexts} \cup
  {"", "  ", "<p></p>", "plain", "<a href=\"https://example.com\">link</a> 12:34",
   "<p>Hi</p>  <p>There</p>"} \cup
  {"<<b>>x<</b>>", "<scr<script>ipt>alert(1)</scr</script>ipt>", "a < b > c <", "<>x<",
   "&lt;&lt;i&gt;&gt;y&amp;lt;b&amp;gt;", " \r x \r\n\r\r\n \t\n y\r", "\n<br>\n<BR/>z<p>\n</p>\n"}

\* toText applied to one raw description.
ToText ==
  /\ gOp = "none"
  /\ \E value \in TextInputs :
       /\ gIn' = [value |-> value]
       /\ gOut' = [text |-> toText(value)]
  /\ gOp' = "toText"
  /\ UNCHANGED <<fetchVars, apiVars>>

MaxTokens == 4

\* The pieces of the texts applyFormattingTokens is applied to: the four
\* markers and escaped text (wrapParagraph escapes the text first, so it
\* holds no tag but the <br /> of a line break).
TokenPieces == {"__STRONG_OPEN__", "__STRONG_CLOSE__", "__EM_OPEN__", "__EM_CLOSE__", "a"}

RECURSIVE PieceLists(_)
PieceLists(n) ==
  IF n = 0 THEN {<<>>}
  ELSE PieceLists(n - 1) \cup
       {Append(l, p) : l \in {x \in PieceLists(n - 1) : Len(x) = n - 1}, p \in TokenPieces}

TokenInputs ==
  PieceLists(MaxTokens) \cup
  {<<"1 &lt; 2<br />", "__STRONG_OPEN__", "b &amp; c", "__EM_OPEN__", "d", "__STRONG_CLOSE__">>}

\* applyFormattingTokens applied to one escaped text.
ApplyTokens ==
  /\ gOp = "none"
  /\ \E pieces \in TokenInputs :
       /\ gIn' = [pieces |-> pieces, value |-> Concat(pieces, 1)]
       /\ gOut' = [text |-> applyFormattingTokens(Concat(pieces, 1))]
  /\ gOp' = "applyFormattingTokens"
  /\ UNCHANGED <<fetchVars, apiVars>>

MaxFragments == 2

\* Pieces of the descriptions a feed carries: allowed and disallowed
\* elements, attributes of both kinds, URLs with and without a scheme,
\* escaped markup and empty elements.
RichFragments ==
  {"<p>Hi</p>",
   "<script>alert(1)</script>",
   "&lt;script&gt;alert(1)&lt;/script&gt;",
   "<a href=\"javascript:x\">x</a>",
   "<a href=\"JavaScript:x\" rel=\"me\">j</a>",
   "<a href=\"https://e.com/?a=1&amp;b=2\" onclick=\"x\" target=\"_self\">y</a>",
   "<a href=\"/rel\">r</a>",
   "<A HREF=\"mailto:a@b.c\">m</A>",
   "<div class=\"c\"><b>z</b></div>",
   "<img src=\"data:x\" alt=\"i\" onerror=\"e\">",
   "<td colspan=\"2\" style=\"s\">c</td>",
   "<iframe src=\"https://e.com\"></iframe>",
   "<p> <br></p>",
   "1 &amp;lt; 2 <br><br/>",
   "<p>Check 12:34 now"}

RECURSIVE FragmentLists(_)
FragmentLists(n) ==
  IF n = 0 THEN {<<>>}
  ELSE FragmentLists(n - 1) \cup
       {Append(l, f) : l \in {x \in FragmentLists(n - 1) : Len(x) = n - 1}, f \in RichFragments}

\* toRichHtml applied to one description.
ToRichHtml ==
  /\ gOp = "none"
  /\ \E pieces \in FragmentLists(MaxFragments) :
       /\ gIn' = [pieces |-> pieces, value |-> Concat(pieces, 1)]
       /\ gOut' = [text |-> toRichHtml(Concat(pieces, 1))]
  /\ gOp' = "toRichHtml"
  /\ UNCHANGED <<fetchVars, apiVars>>

\* Pieces of descriptions with timestamps in text, inside links, inside
\* attributes and next to elements written without a closing tag.
TimestampFragments ==
  {"Check 12:34 now",
   "<p>at 1:02:03 and 59:59</p>",
   "<a href=\"https://e.com/1:00\" title=\"t 2:00\">3:45</a>",
   "<br>",
   "<img src=\"https://e.com/i.png\" alt=\"1:23\">",
   "<b>0:01",
   "&amp;lt;br 1:00 &amp;gt;",
   "<button class=\"timestamp\" data-timestamp=\"4:00\">4:00</button>",
   "<span class=\"timestamp\">5:00</span>",
   "123:456",
   "<hr>7:07"}

RECURSIVE TimestampLists(_)
TimestampLists(n) ==
  IF n = 0 THEN {<<>>}
  ELSE TimestampLists(n - 1) \cup
       {Append(l, f) : l \in {x \in TimestampLists(n - 1) : Len(x) = n - 1},
                       f \in TimestampFragments}

\* highlightTimestampsInHtml applied to a description toRichHtml has
\* sanitized (buildEpisodeDescriptionHtml in extractEpisodesPage), and
\* again to its result.
HighlightHtml ==
  /\ gOp = "none"
  /\ \E pieces \in TimestampLists(MaxFragments) :
       \E html \in {toRichHtml(Concat(pieces, 1))} :
         \E once \in {highlightTimestampsInHtml(html)} :
           /\ gIn' = [pieces |-> pieces, value |-> html]
           /\ gOut' = [text |-> once, twice |-> highlightTimestampsInHtml(once)]
  /\ gOp' = "highlightTimestampsInHtml"
  /\ UNCHANGED <<fetchVars, apiVars>>

\* No request yet; a request is the endpoint, the query and, once the
\* await of parseRssFeed is over, what the parser gave.
NoQuery == [url |-> Undefined, cursor |-> Undefined, limit |-> Undefined, refresh |-> Undefined]
NoRequest == [endpoint |-> "", query |-> NoQuery, parsed |-> ParseGives(NoChannelTree)]

Endpoints == {"/", "/episodes"}

\* The url parameter: absent, empty, a public name and a private address.
RequestUrls ==
  {Undefined, Str(""), Str("http://example.com/feed"), Str("http://10.0.0.5/feed")}

\* The other parameters of the query.
RouteQueries ==
  {NoQuery, [NoQuery EXCEPT !.refresh = Str("1")],
   [NoQuery EXCEPT !.refresh = Str(" False ")],
   [NoQuery EXCEPT !.cursor = Str("5"), !.limit = Str("2")]}

\* A channel with a description only, which sanitizing leaves empty, and
\* one with a description that stays.
FeedBlank == [hasChannel |-> TRUE, channel |-> [EmptyChannel EXCEPT !.description = "<p> </p>"]]
FeedAbout == [hasChannel |-> TRUE, channel |-> [EmptyChannel EXCEPT !.description = "<p>About</p>"]]

\* What parser.parse does with the text fetchRss gave.
ParseOutcomes ==
  {ParseThrows("Unexpected end of input"), ParseThrows("")} \cup
  {ParseGives(tree) : tree \in {FeedBlank, FeedAbout,
                                [hasChannel |-> TRUE, channel |-> ChannelOf(<<ItemFull>>)]}}

\* A request arrives at one of the endpoints given, with one of the values
\* given for url: without url it is answered at
\* once, otherwise parseRssFeed(url) calls fetchRss(url) and the handler
\* waits. (The other parameters of the query are read here and used after
\* the await only; they are drawn where they are used.)
RequestWith(endpoints, urls) ==
  /\ pc = "idle"
  /\ req = NoRequest
  /\ \E endpoint \in endpoints, u \in urls :
       /\ req' = [NoRequest EXCEPT !.endpoint = endpoint, !.query.url = u]
       /\ IF u.text = ""
          THEN res' = badRequest /\ UNCHANGED fetchVars
          ELSE StartHop(u.text, 0) /\ UNCHANGED res
  /\ UNCHANGED <<feed, calls, peer, guardVars>>

Request == RequestWith(Endpoints, RequestUrls)

\* The await of parseRssFeed(url) is over, the promise of fetchRss being
\* settled: the rest of the try block, or the catch block, answers, for the
\* queries and the parser outcomes given.
RespondWith(queries, parses) ==
  /\ req # NoRequest
  /\ ~res.sent
  /\ outcome.state # "pending"
  /\ \E q \in queries :
       \E parsed \in (IF outcome.state = "fulfilled" THEN parses
                      ELSE {NoRequest.parsed}) :
         \E query \in {[q EXCEPT !.url = req.query.url]} :
           /\ req' = [req EXCEPT !.query = query, !.parsed = parsed]
           /\ res' = responseOf(req.endpoint, query, outcome, parsed)
  /\ UNCHANGED <<feed, calls, peer, guardVars, fetchVars>>

Respond == RespondWith(RouteQueries, ParseOutcomes)

\* The limits a client pages with.
ClientLimits == {1, 2, MaxItems, MAX_LIMIT}

ClientUrl == "http://example.com/feed"

\* The client asks for the first page, or for the page at the nextCursor of
\* the last answer while that answer has hasMore; the feed is fetched and
\* parsed again for every request and is the same every time.
ClientRequest ==
  /\ Len(calls) <= MaxItems + 1
  /\ calls # <<>> => calls[Len(calls)].response.body.pagination.hasMore
  /\ \E limit \in (IF calls = <<>> THEN ClientLimits ELSE {calls[1].limit}) :
       \E cursor \in {IF calls = <<>> THEN 0
                      ELSE calls[Len(calls)].response.body.pagination.nextCursor} :
         \E query \in {[url |-> Str(ClientUrl), cursor |-> Str(DecStr(cursor)),
                        limit |-> Str(DecStr(limit)), refresh |-> Undefined]} :
           calls' = Append(calls,
                      [cursor |-> cursor, limit |-> limit,
                       response |-> episodesResponse(query, resolve(Pending, FeedText),
                                                     ParseGives(feed))])
  /\ UNCHANGED <<feed, req, res, peer, guardVars, fetchVars>>

(***************************************************************************)
(* requireApiKey, the middleware every request under /api passes before    *)
(* the routes. A key is absent (Undefined), a string, or the list the      *)
(* query parser gives for a repeated parameter.                            *)
(***************************************************************************)
List(text) == [kind |-> "array", text |-> text]

\* The messages of the middleware (the first stands for the message of the
\* source, which is not in ASCII).
ERR_NOT_CONFIGURED == "API_KEY is not configured"
ERR_UNAUTHORIZED == "Unauthorized"

\* req.header("x-api-key") || req.query.api_key
providedKeyOf(header, query) ==
  IF header.kind = "string" /\ header.text # "" THEN header ELSE query

\* The response requireApiKey sends, NoResponse when it calls next().
requireApiKey(API_KEY, header, query) ==
  IF API_KEY.kind = "undefined" \/ API_KEY.text = ""
  THEN Sent(500, "", [error |-> ERR_NOT_CONFIGURED])
  ELSE IF providedKeyOf(header, query) # API_KEY
  THEN Sent(401, "", [error |-> ERR_UNAUTHORIZED])
  ELSE NoResponse

\* process.env.API_KEY: unset, empty, or a key.
ApiKeys == {Undefined, Str(""), Str("k1"), Str("k2")}
\* The X-API-Key header and the api_key parameter of a request.
HeaderKeys == {Undefined, Str(""), Str("k1"), Str("k2"), Str("K1")}
QueryKeys == {Undefined, Str(""), Str("k1"), Str("k2"), List("k1")}

\* A request under /api arrives at the middleware.
RequireApiKey ==
  /\ gOp = "none"
  /\ \E API_KEY \in ApiKeys, header \in HeaderKeys, query \in QueryKeys :
       \E answer \in {requireApiKey(API_KEY, header, query)} :
         /\ gIn' = [apiKey |-> API_KEY, header |-> header, query |-> query]
         /\ gOut' = [next |-> ~answer.sent]
         /\ res' = answer
  /\ gOp' = "requireApiKey"
  /\ UNCHANGED <<feed, calls, peer, req, fetchVars>>

\* next(): the request goes on to the handler of its route.
Routed ==
  /\ gOp = "requireApiKey"
  /\ gOut.next
  /\ Request

(***************************************************************************)
(* Two requests in one process. Every variable of fetchRss and of a route  *)
(* handler is a local of the call (or of the closures it creates), so the  *)
(* state above is the state of ONE request; peer holds the same state for  *)
(* the other request of the process. The event loop runs one callback at a *)
(* time: each action above is one callback of the request whose state is   *)
(* in the variables, and Switch lets the next callback be one of the other *)
(* request.                                                                *)
(***************************************************************************)

\* The locals of a request before it arrives.
NoPeer ==
  [pc |-> "idle", url |-> InvalidUrl, redirectCount |-> 0, addresses |-> DnsAnswer(<<>>),
   lookup |-> NoAddress, nRequests |-> 0, connAddr |-> "", dnsNow |-> <<>>,
   status |-> NoStatus, location |-> NoLocation, resumed |-> FALSE, chunks |-> <<>>,
   totalBytes |-> 0, sockOpen |-> FALSE, outcome |-> Pending, idle |-> 0, ticks |-> 0,
   req |-> NoRequest, res |-> NoResponse]

\* The locals of the request whose callbacks are running.
Locals ==
  [pc |-> pc, url |-> url, redirectCount |-> redirectCount, addresses |-> addresses,
   lookup |-> lookup, nRequests |-> nRequests, connAddr |-> connAddr, dnsNow |-> dnsNow,
   status |-> status, location |-> location, resumed |-> resumed, chunks |-> chunks,
   totalBytes |-> totalBytes, sockOpen |-> sockOpen, outcome |-> outcome, idle |-> idle,
   ticks |-> ticks, req |-> req, res |-> res]

\* A request that has arrived and is not answered.
Waiting(r) == r.req # NoRequest /\ ~r.res.sent

\* The next callback is one of the other request. An exception no handler
\* catches (pc = "crashed") ends the process: nothing runs after it. The
\* continuation of an await runs as a microtask, before any callback of
\* another request: there is no switch between the settling of the promise
\* and the answer of the handler.
Switch ==
  /\ pc # "crashed"
  /\ Waiting(Locals) => outcome.state = "pending"
  /\ peer' = Locals
  /\ pc' = peer.pc
  /\ url' = peer.url
  /\ redirectCount' = peer.redirectCount
  /\ addresses' = peer.addresses
  /\ lookup' = peer.lookup
  /\ nRequests' = peer.nRequests
  /\ connAddr' = peer.connAddr
  /\ dnsNow' = peer.dnsNow
  /\ status' = peer.status
  /\ location' = peer.location
  /\ resumed' = peer.resumed
  /\ chunks' = peer.chunks
  /\ totalBytes' = peer.totalBytes
  /\ sockOpen' = peer.sockOpen
  /\ outcome' = peer.outcome
  /\ idle' = peer.idle
  /\ ticks' = peer.ticks
  /\ req' = peer.req
  /\ res' = peer.res
  /\ UNCHANGED <<feed, calls, guardVars>>

\* The servers of the two requests: one name with at most one address, and
\* a body of at most MaxChunks - 1 small chunks, not compressed.
PairBound ==
  /\ Len(chunks) < MaxChunks
  /\ totalBytes < MaxChunks
  /\ Len(addresses.addresses) <= 1
  /\ dnsNow \in {<<>>, <<AddressRecord("93.184.216.34")>>}
  /\ pc # "decode"

\* What the parser does with the body: it throws, or finds a channel
\* without items.
PairParses == {ParseThrows(""), ParseGives(FeedAbout)}

PairRequest == RequestWith({"/episodes"}, {Str(""), Str("http://example.com/feed")})
PairDnsSettle == DnsSettle /\ PairBound'
PairConnect == Connect /\ PairBound'
PairResponse == ResponseWith({200, 301}, {NoLocation, "//["})
PairData == Data /\ PairBound'
PairEnd == End /\ PairBound'
PairRespond == RespondWith({NoQuery}, PairParses)

(***************************************************************************)
(* The cursor and limit parameters of /episodes.                           *)
(***************************************************************************)
RECURSIVE Nines(_)
\* n times the digit 9.
Nines(n) == IF n <= 1 THEN "9" ELSE Nines(n \div 2) \o Nines(n - n \div 2)

\* A run of digits too long for a finite double.
HugeDigits == Nines(MaxDoubleDigits + 1)

\* The values of the cursor parameter: absent, not numbers, negative, zero,
\* positive, digits followed by other text, a nested parameter (cursor[a]=1,
\* an object for the query parser) and a run of digits of any length.
CursorParams ==
  {Undefined, Str(""), Str("abc"), Str("-3"), Str("0"), Str("2"), Str(" 1"), Str("2x"),
   Obj("[object Object]"), Str("-" \o HugeDigits), Str(HugeDigits)}

\* The values of the limit parameter.
LimitParams ==
  {Undefined, Str("ten"), Str("-2"), Str("0"), Str("1"), Str("2"), Str("50"), Str("51"),
   Str("1000"), Str(HugeDigits)}

PagingQueries ==
  {[NoQuery EXCEPT !.cursor = cursor, !.limit = limit] :
     cursor \in CursorParams, limit \in LimitParams}

\* The feed the pages are taken from.
FeedPaged == [hasChannel |-> TRUE, channel |-> ChannelOf(<<ItemBare, ItemUid, ItemBare>>)]

PagingRequest == RequestWith({"/episodes"}, {Str(ClientUrl)})
PagingResponse == ResponseWith({200}, {NoLocation})
PagingRespond == RespondWith(PagingQueries, {ParseGives(FeedPaged)})

(***************************************************************************)
(* The guid of an item in the shapes the parser gives it. The parser reads *)
(* a text of digits as a number (parseTagValue is on by default) and an    *)
(* element with attributes as an object with the text under "#text".       *)
(***************************************************************************)
\* An object with attributes whose "#text" is a number.
ObjNum(text) == [kind |-> "object#number", text |-> text]

\* <guid> absent, empty, a text, digits, and with isPermaLink="false" a text
\* and digits.
GuidShapes ==
  {Undefined, Str(""), Str("urn:ep:9"), Str(" urn:ep:9 "), Num("12345"),
   Obj("urn:ep:1"), Obj("https://example.com/ep/1"), ObjNum("12345")}

\* The items a guid of these shapes stands in, with and without the other
\* identifying elements.
GuidItems ==
  {[ItemBare EXCEPT !.guid = guid, !.id = id, !.uid = uid, !.link = link,
                    !.enclosure = enclosure] :
     guid \in GuidShapes, id \in {Undefined, Str("id-7")}, uid \in {Undefined, Str("u-3")},
     link \in {Undefined, Str("https://example.com/ep/2")},
     enclosure \in {NoEnclosure, [atUrl |-> "https://cdn.example.com/1.mp3", url |-> ""]}}

\* extractEpisodesPage on a feed of one item.
ExtractItem ==
  /\ gOp = "none"
  /\ \E item \in GuidItems :
       /\ gIn' = item
       /\ gOut' = extractEpisodesPage([hasChannel |-> TRUE, channel |-> ChannelOf(<<item>>)],
                                      0, PER_PAGE)
  /\ gOp' = "extractEpisodesPage"
  /\ UNCHANGED <<fetchVars, apiVars>>

(***************************************************************************)
(* The website of a channel.                                               *)
(***************************************************************************)
\* What the parser gives for the <link> elements of a channel.
ChannelLinks ==
  {Undefined, Str(""), Str("https://example.com"), Str("https://example.org"),
   List("https://example.com"), List("https://example.org"), List(""),
   Obj("https://example.com"), Obj(""), Str(" ")}

\* What the parser gives for <itunes:link>.
ItunesLinks ==
  {Undefined, Str(""), Str("https://itunes.example.com"), Str("https://example.org"),
   List("https://itunes.example.com"), List(""), Obj("https://itunes.example.com"),
   Obj(""), Str(" "), Str("https://example.com")}

\* The website extractPodcastInfo resolves for a channel.
ExtractWebsite ==
  /\ gOp = "none"
  /\ \E link \in ChannelLinks, itunesLink \in ItunesLinks :
       /\ gIn' = [link |-> link, itunesLink |-> itunesLink]
       /\ gOut' = websiteOf(link, itunesLink)
  /\ gOp' = "extractPodcastInfo"
  /\ UNCHANGED <<fetchVars, apiVars>>

(***************************************************************************)
(* Plain texts: paragraphs and blockquote tokens between blank lines.      *)
(***************************************************************************)
\* The paragraphs of the texts: the two tokens, and paragraphs with a line
\* break, with the characters escapeHtml replaces, with a formatting token
\* and with times. (convertHtmlToPlainText, which writes the texts, leaves
\* no "<" with a ">" after it.)
ParagraphPool ==
  {BLOCKQUOTE_OPEN_TOKEN, BLOCKQUOTE_CLOSE_TOKEN, "Hi\nthere",
   "2 > 1 < 3 \"R&D\" 'x'", "__STRONG_OPEN__at 1:23"}

MaxParagraphs == 4

RECURSIVE ParagraphLists(_)
ParagraphLists(n) ==
  IF n = 0 THEN {<<>>}
  ELSE ParagraphLists(n - 1) \cup
       {Append(l, f) : l \in {x \in ParagraphLists(n - 1) : Len(x) = n - 1},
                       f \in ParagraphPool}

\* What stands between two paragraphs: two newlines or more, blanks around.
BlankLines == {"\n\n", " \n\n\n\t"}

RECURSIVE JoinWith(_, _, _)
JoinWith(parts, sep, i) ==
  IF i > Len(parts) THEN ""
  ELSE IF i = Len(parts) THEN parts[i]
  ELSE parts[i] \o sep \o JoinWith(parts, sep, i + 1)

\* buildHtmlFromPlainText applied to one text.
BuildFromText ==
  /\ gOp = "none"
  /\ \E parts \in ParagraphLists(MaxParagraphs), sep \in BlankLines :
       \E text \in {JoinWith(parts, sep, 1)} :
         /\ gIn' = [parts |-> parts, text |-> text]
         /\ gOut' = [html |-> buildHtmlFromPlainText(text)]
  /\ gOp' = "buildHtmlFromPlainText"
  /\ UNCHANGED <<fetchVars, apiVars>>

\* Other paragraphs of fallback texts: a time after a quote, entities of
\* the feed, times in a row.
FallbackPool ==
  ParagraphPool \cup {"it's '9:15:30\" >> <b", "&lt;script&gt; 12:34:56:78 &amp; 1:2"}

RECURSIVE FallbackLists(_)
FallbackLists(n) ==
  IF n = 0 THEN {<<>>}
  ELSE FallbackLists(n - 1) \cup
       {Append(l, f) : l \in {x \in FallbackLists(n - 1) : Len(x) = n - 1},
                       f \in FallbackPool}

\* What toRichHtml gave for the description: nothing, or some HTML.
SanitizedHtmls == {"", " ", "<p>at 1:00</p>"}

\* buildEpisodeDescriptionHtml applied to a sanitized description and to the
\* plain text of the same description.
BuildDescription ==
  /\ gOp = "none"
  /\ \E html \in SanitizedHtmls, parts \in FallbackLists(2) :
       \E fallbackText \in {JoinWith(parts, "\n\n", 1)} :
         /\ gIn' = [html |-> html, fallbackText |-> fallbackText]
         /\ gOut' = [html |-> buildEpisodeDescriptionHtml(html, fallbackText)]
  /\ gOp' = "buildEpisodeDescriptionHtml"
  /\ UNCHANGED <<fetchVars, apiVars>>

(***************************************************************************)
(* cleanEmptyHtml and highlightTimestampsInHtml on HTML as the sanitizer   *)
(* writes it: every element closed, an element without content written    *)
(* with " />".                                                             *)
(***************************************************************************)
\* Pieces with empty elements, nested and with blanks, &nbsp; and line
\* breaks inside, with line breaks in a row, and with content.
CleanFragments ==
  {"<p></p>", "<P> </P>", "<div> <p>&nbsp;</p><br /></div>", "<b><i></i></b>",
   "<br />", "<br>  ", "<BR/>\n", "x", "<p>Hi</p>", "<span><br /></span>",
   "<blockquote>\n<pre> </pre></blockquote>", " ", "<ul><li></li></ul>",
   "<div><div></div>", "</div>", "<a href=\"/x\"></a>"}

RECURSIVE CleanLists(_)
CleanLists(n) ==
  IF n = 0 THEN {<<>>}
  ELSE CleanLists(n - 1) \cup
       {Append(l, f) : l \in {x \in CleanLists(n - 1) : Len(x) = n - 1}, f \in CleanFragments}

\* cleanEmptyHtml applied to one text.
CleanEmpty ==
  /\ gOp = "none"
  /\ \E pieces \in CleanLists(MaxFragments) :
       \E html \in {Concat(pieces, 1)} :
         /\ gIn' = [pieces |-> pieces, html |-> html, passes |-> passesOf(html)]
         /\ gOut' = [html |-> cleanEmptyHtml(html)]
  /\ gOp' = "cleanEmptyHtml"
  /\ UNCHANGED <<fetchVars, apiVars>>

\* Elements that are timestamp markers, by class or by attribute, with
\* elements and line breaks inside.
MarkerPieces ==
  {"<span class=\"timestamp\">4:00</span>",
   "<button class=\"timestamp\" type=\"button\" data-timestamp=\"5:00\"><b>5:00</b> <i>5:30<br>5:45</i></button>",
   "<a data-timestamp=\"6:00\" href=\"/x\">6:00 <em>6:30</em></a>",
   "<span class='x timestamp y'><span>7:00</span>7:30<hr /></span>"}

\* Text, elements, line breaks and an element the class of which only
\* starts like that of a marker.
PlainPieces ==
  {"at 1:00 ", "<b>2:00</b>", "<br />", "<hr>9:00",
   "<img src=\"https://e.com/3:00.png\" alt=\"3:30\" />",
   "<span class=\"timestamps\">8:00</span>"}

RECURSIVE MarkedLists(_)
MarkedLists(n) ==
  IF n = 0 THEN {<<>>}
  ELSE MarkedLists(n - 1) \cup
       {Append(l, f) : l \in {x \in MarkedLists(n - 1) : Len(x) = n - 1},
                       f \in MarkerPieces \cup PlainPieces}

\* highlightTimestampsInHtml applied to HTML that has markers already.
HighlightMarked ==
  /\ gOp = "none"
  /\ \E pieces \in MarkedLists(MaxFragments) :
       /\ gIn' = [pieces |-> pieces, html |-> Concat(pieces, 1)]
       /\ gOut' = [html |-> highlightTimestampsInHtml(Concat(pieces, 1))]
  /\ gOp' = "highlightMarked"
  /\ UNCHANGED <<fetchVars, apiVars>>

Init ==
  /\ gOp = "none" /\ gIn = "" /\ gOut = FALSE
  /\ pc = "idle"
  /\ url = InvalidUrl
  /\ redirectCount = 0
  /\ addresses = DnsAnswer(<<>>)
  /\ lookup = NoAddress
  /\ nRequests = 0
  /\ connAddr = ""
  /\ dnsNow = <<>>
  /\ status = NoStatus
  /\ location = NoLocation
  /\ resumed = FALSE
  /\ chunks = <<>>
  /\ totalBytes = 0
  /\ sockOpen = FALSE
  /\ outcome = Pending
  /\ idle = 0
  /\ ticks = 0
  /\ feed = NoChannelTree
  /\ calls = <<>>
  /\ req = NoRequest
  /\ res = NoResponse
  /\ peer = NoPeer

NextGuard == GuardClassify \/ GuardEnsure \/ GuardResolve

\* The guard functions on their bounded inputs.
SpecGuard == Init /\ [][NextGuard]_vars

Next ==
  \/ Call
  \/ DnsSettle
  \/ Connect
  \/ Response
  \/ Data
  \/ End
  \/ Decoded
  \/ Tick
  \/ Timeout
  \/ SocketError
  \/ ServerClose
  \/ LateError

\* One call of fetchRss against every behaviour of the DNS and the server.
Spec == Init /\ [][Next]_vars

\* Init with the feed drawn from the bounded feeds.
InitEpisodes ==
  \E tree \in Feeds :
    /\ feed = tree
    /\ req = NoRequest /\ res = NoResponse
    /\ gOp = "none" /\ gIn = "" /\ gOut = FALSE
    /\ pc = "idle" /\ url = InvalidUrl /\ redirectCount = 0
    /\ addresses = DnsAnswer(<<>>) /\ lookup = NoAddress /\ nRequests = 0
    /\ connAddr = "" /\ dnsNow = <<>> /\ status = NoStatus /\ location = NoLocation
    /\ resumed = FALSE /\ chunks = <<>> /\ totalBytes = 0 /\ sockOpen = FALSE
    /\ outcome = Pending /\ idle = 0 /\ ticks = 0
    /\ calls = <<>>
    /\ peer = NoPeer

NextEpisodes == ExtractPage

\* extractEpisodesPage called on every bounded feed.
SpecEpisodes == InitEpisodes /\ [][NextEpisodes]_vars

NextRoute ==
  \/ Request
  \/ DnsSettle
  \/ Connect
  \/ Response
  \/ Data
  \/ End
  \/ Decoded
  \/ Tick
  \/ Timeout
  \/ SocketError
  \/ ServerClose
  \/ LateError
  \/ Respond

\* A request to one of the routes, with the fetchRss call it makes.
SpecRoute == Init /\ [][NextRoute]_vars

NextClient == ClientRequest

\* A client paging through the episodes of every bounded feed; a client
\* that can ask for the next page does so.
SpecClient == InitEpisodes /\ [][NextClient]_vars /\ WF_vars(ClientRequest)

NextPair ==
  \/ PairRequest
  \/ PairDnsSettle
  \/ PairConnect
  \/ PairResponse
  \/ PairData
  \/ PairEnd
  \/ PairRespond
  \/ Switch

\* Two requests whose callbacks interleave in every order.
SpecPair == Init /\ [][NextPair]_vars

NextPaging ==
  \/ PagingRequest
  \/ PairDnsSettle
  \/ PairConnect
  \/ PagingResponse
  \/ PairEnd
  \/ PagingRespond

\* A request to /episodes for every bounded cursor and limit.
SpecPaging == Init /\ [][NextPaging]_vars

NextItems == ExtractItem

\* extractEpisodesPage on items of every bounded shape.
SpecItems == Init /\ [][NextItems]_vars

NextChannel == ExtractWebsite

\* The website of every bounded channel.
SpecChannel == Init /\ [][NextChannel]_vars

NextText == BuildFromText \/ BuildDescription

\* The functions that build a description from plain text, on their
\* bounded inputs.
SpecText == Init /\ [][NextText]_vars

NextMarkup == CleanEmpty \/ HighlightMarked

\* The functions that rewrite sanitized HTML, on their bounded inputs.
SpecMarkup == Init /\ [][NextMarkup]_vars

NextAuth == RequireApiKey \/ Routed

\* The requests under /api, from the middleware to the start of the handler.
SpecAuth == Init /\ [][NextAuth]_vars

NextPure ==
  \/ BuildId
  \/ ToText
  \/ ApplyTokens
  \/ ToRichHtml
  \/ HighlightHtml

\* The pure functions of the API on their bounded inputs.
SpecPure == Init /\ [][NextPure]_vars

(***************************************************************************)
(* The claims about the guard.                                             *)
(***************************************************************************)
\* v (16 bits: two octets, or one IPv6 group) lies in the prefix base/bits.
InPrefix16(v, base, bits) == v \div (2 ^ (16 - bits)) = base \div (2 ^ (16 - bits))

\* The IPv4 ranges of the specification, on the first two octets: 0.0.0.0/8,
\* 10.0.0.0/8, 127.0.0.0/8, 169.254.0.0/16, 172.16.0.0/12, 192.168.0.0/16,
\* 100.64.0.0/10.
Reserved4(a, b) ==
  LET v == a * 256 + b
  IN  \/ InPrefix16(v, 0, 8)
      \/ InPrefix16(v, 10 * 256, 8)
      \/ InPrefix16(v, 127 * 256, 8)
      \/ InPrefix16(v, 169 * 256 + 254, 16)
      \/ InPrefix16(v, 172 * 256 + 16, 12)
      \/ InPrefix16(v, 192 * 256 + 168, 16)
      \/ InPrefix16(v, 100 * 256 + 64, 10)

\* C7: for every IPv4 literal a.b.c.d isPrivateIp is true exactly when the
\* address lies in one of the seven reserved ranges, and ensurePublicUrl
\* rejects an http(s) URL whose host is an IPv4 literal, with the
\* private-address error, exactly when the literal lies in one of them.
C7_Ipv4Ranges ==
  /\ (gOp = "isPrivateIp" /\ gIn.family = 4) => (gOut <=> Reserved4(gIn.a, gIn.b))
  /\ (gOp = "ensurePublicUrl" /\ gIn.family = 4 /\ gIn.scheme \in {"http", "https", "HTTP"})
       => /\ (gOut = ERR_PRIVATE <=> Reserved4(gIn.a, gIn.b))
          /\ (gOut = NoError <=> ~Reserved4(gIn.a, gIn.b))

\* C7 witness: ensurePublicUrl rejected the link-local metadata address.
C7_Witness ==
  gOp = "ensurePublicUrl" /\ gIn.text = "http://169.254.169.254/feed" /\ gOut = ERR_PRIVATE

\* The IPv6 ranges of the specification for the address g1:0:0:0:0:0:0:g8:
\* ::1, fe80::/10 and fc00::/7.
Reserved6(g1, g8) ==
  \/ (g1 = 0 /\ g8 = 1)
  \/ InPrefix16(g1, 65152, 10)
  \/ InPrefix16(g1, 64512, 7)

\* C8: isPrivateIp is true for ::1, for every address of fe80::/10, for
\* every address of fc00::/7 and for every IPv4-mapped address whose IPv4
\* address is private.
C8_Ipv6Ranges ==
  /\ (gOp = "isPrivateIp" /\ gIn.family = 6) => (Reserved6(gIn.g1, gIn.g8) => gOut)
  /\ (gOp = "isPrivateIp" /\ gIn.family = 46) => (Reserved4(gIn.a, gIn.b) => gOut)

\* C9: resolvePublicAddress returns the first address of the answer, in the
\* answer's order, that isPrivateIp classifies as not private; it throws the
\* private-address error when the answer is not empty and every address is
\* private, and the DNS error when the answer is empty.
C9_FirstPublic ==
  (gOp = "resolvePublicAddress" /\ ~gIn.failed) =>
    LET l == gIn.addresses
    IN  /\ (Len(l) = 0 <=> gOut.error = ERR_DNS)
        /\ (gOut.error = ERR_PRIVATE
              <=> (Len(l) > 0 /\ \A i \in 1..Len(l) : isPrivateIp(l[i].address)))
        /\ (gOut.error = NoError =>
              \E i \in 1..Len(l) :
                 /\ gOut.value = l[i]
                 /\ ~isPrivateIp(l[i].address)
                 /\ \A j \in 1..(i - 1) : isPrivateIp(l[j].address))
        /\ (gOut.error # NoError => gOut.value = NoAddress)

\* C9 witness: an answer whose first address is private and whose second is
\* public was resolved to the second.
C9_Witness ==
  /\ gOp = "resolvePublicAddress"
  /\ ~gIn.failed
  /\ Len(gIn.addresses) >= 2
  /\ isPrivateIp(gIn.addresses[1].address)
  /\ gOut.error = NoError
  /\ gOut.value = gIn.addresses[2]

(***************************************************************************)
(* The claims about fetchRss.                                              *)
(***************************************************************************)
Rejected(message) == [state |-> "rejected", value |-> message]

\* The request of the current hop has been created: every earlier hop made
\* one, so the call has made redirectCount + 1 of them.
HopRequested == pc # "idle" /\ nRequests = redirectCount + 1

\* The host of the current hop is a DNS name.
HostIsName == url.valid /\ isIP(url.hostname) = 0

\* C1: on a hop whose host is a DNS name, the socket connects to the address
\* resolvePublicAddress returned for the answer of that hop, which is not
\* private, whatever the DNS answers when the socket connects.
C1_PinnedAddress ==
  (HostIsName /\ connAddr # "") =>
     /\ connAddr = lookup.address
     /\ connAddr = resolvePublicAddress(addresses).value.address
     /\ ~isPrivateIp(connAddr)

\* C1 witness: the socket of a name's hop is connected to the pinned address
\* while the DNS now answers with a loopback address.
C1_Witness ==
  /\ HostIsName
  /\ connAddr # ""
  /\ connAddr = lookup.address
  /\ dnsNow # <<>>
  /\ dnsNow[1].address = "127.0.0.1"

\* The targets the guard is to refuse, told by the text of the URL alone.
LocalHosts == {"localhost", "a.localhost"}
PrivateLiterals == {"10.0.0.5", "127.0.0.1", "[::1]", "[fd00::1]"}
PrivateAddresses == {"10.0.0.5", "127.0.0.1", "::1"}

RefusedTarget ==
  \/ ~url.valid
  \/ url.protocol \notin {"http:", "https:"}
  \/ url.hostname \in LocalHosts
  \/ url.hostname \in PrivateLiterals

\* The answer of the hop's lookup holds no public address.
NoPublicAnswer ==
  \/ addresses.failed
  \/ \A i \in 1..Len(addresses.addresses) : addresses.addresses[i].address \in PrivateAddresses

\* C2: the request of a hop, the first or a redirect's, is created only for a
\* target the guard accepts: a URL that parses, with scheme http or https, a
\* host that is neither local nor a private literal and, for a name, a lookup
\* that gave a public address; a hop to any other target ends the call with
\* a failure and without a request (a bracketed IPv6 literal at the failure
\* of its lookup, the others before any lookup), and no socket connects to a
\* private address.
C2_GuardBeforeRequest ==
  /\ (pc # "idle" /\ RefusedTarget)
        => (~HopRequested /\ pc \in {"dns", "done"} /\ (pc = "done" => outcome.state = "rejected"))
  /\ (HostIsName /\ pc \notin {"idle", "dns"} /\ NoPublicAnswer)
        => (~HopRequested /\ pc = "done" /\ outcome.state = "rejected")
  /\ HopRequested => ensurePublicUrl(url) = NoError
  /\ (HopRequested /\ HostIsName) => lookup # NoAddress
  /\ connAddr \notin PrivateAddresses
  /\ nRequests <= redirectCount + 1

\* C2 witness: a redirect led to a private IPv4 literal and the call failed
\* with the only request made being the one of the first hop.
C2_Witness ==
  /\ redirectCount = 1
  /\ url.hostname = "10.0.0.5"
  /\ nRequests = 1
  /\ outcome = Rejected(ERR_PRIVATE)

\* C3: a call follows at most 3 redirects and makes at most 4 requests; it
\* fails with the too-many-redirects error exactly when a redirect response
\* arrives on the hop reached by 3 redirects.
C3_RedirectBudget ==
  /\ redirectCount <= 3
  /\ nRequests <= 4
  /\ outcome = Rejected(ERR_REDIRECTS)
       <=> (pc = "done" /\ redirectCount = 3 /\ status >= 300 /\ status < 400
            /\ location # NoLocation)

\* C3 witness: a chain of 3 redirects followed by a 200 response gave the
\* text, with 4 requests made.
C3_Witness ==
  /\ redirectCount = 3
  /\ nRequests = 4
  /\ status = 200
  /\ outcome = [state |-> "fulfilled", value |-> FeedText]

\* C4: the buffered chunks never hold more than 5 MiB; once the counter is
\* over the cap the response is destroyed, the call has failed with the
\* too-large error and the chunk that crossed the cap is not buffered; a
\* call that gave text counted at most 5 MiB, and a body of exactly 5 MiB is
\* not refused as too large.
C4_ByteCap ==
  /\ SumOf(chunks) <= 5 * 1024 * 1024
  /\ totalBytes > 5 * 1024 * 1024
       => /\ outcome = Rejected(ERR_TOO_LARGE)
          /\ ~sockOpen
          /\ pc = "done"
          /\ SumOf(chunks) < totalBytes
  /\ outcome.state = "fulfilled" => (totalBytes <= 5 * 1024 * 1024 /\ SumOf(chunks) = totalBytes)
  /\ outcome = Rejected(ERR_TOO_LARGE) => totalBytes > 5 * 1024 * 1024

\* C4 witness: a body of exactly 5 MiB, in two chunks, gave the text.
C4_Witness ==
  /\ outcome.state = "fulfilled"
  /\ Len(chunks) = 2
  /\ totalBytes = 5 * 1024 * 1024

\* C5: once no handler of the call is left to run, the call has settled,
\* with the text or with a failure: it does not stay pending.
C5_AlwaysSettles == pc \in {"done", "aborted", "crashed"} => outcome.state # "pending"

\* C6: a hop in flight (its headers or its body not complete) has not lasted
\* longer than 10 seconds since it started.
C6_WallClock ==
  (pc \in {"headers", "body"} /\ outcome.state = "pending") => ticks * TickMs <= 10000

\* C10 as stated: every response with a 2xx status goes on to body
\* streaming, so none fails with the status error.
C10_Every2xxStreams ==
  (status >= 200 /\ status < 300) => outcome # Rejected(ERR_STATUS(status))

\* C10 as amended: a 3xx status with a Location header is handled as a
\* redirect; every other status that is not 200 fails with the error
\* carrying the status code, its body drained and none of it buffered; only
\* status 200 goes on to body streaming and decoding.
C10_StatusDispatch ==
  LET redirect == status >= 300 /\ status < 400 /\ location # NoLocation
  IN  /\ (status # NoStatus /\ ~redirect /\ status # 200)
            => /\ outcome = Rejected(ERR_STATUS(status))
               /\ pc = "done"
               /\ resumed
               /\ chunks = <<>>
               /\ totalBytes = 0
      /\ status = 200
            => /\ outcome # Rejected(ERR_STATUS(status))
               /\ pc \in {"body", "decode", "done", "aborted"}
               /\ ~resumed
      /\ redirect => (outcome.state = "pending" \/ outcome = Rejected(ERR_REDIRECTS))

\* C10 witness: a 204 response failed with the status error, nothing
\* buffered.
C10_Witness ==
  /\ status = 204
  /\ outcome = Rejected(ERR_STATUS(204))
  /\ chunks = <<>>
  /\ resumed

(***************************************************************************)
(* Claims on the extraction of episodes.                                   *)
(***************************************************************************)
\* The items of the whole feed, as the document lists them.
ItemsOfFeed == IF feed.hasChannel THEN feed.channel.item ELSE <<>>

\* The title an item at the 1-based position n of the feed is given.
TitleAt(n) ==
  IF ItemsOfFeed[n].title # "" THEN ItemsOfFeed[n].title ELSE "Episode " \o DecStr(n)

FirstNonEmpty(candidates, last) ==
  LET full == {i \in 1..Len(candidates) : candidates[i] # ""}
  IN  IF full = {} THEN last ELSE candidates[CHOOSE i \in full : \A j \in full : i <= j]

\* C13: the id is the digest of the first non-empty candidate in the order
\* guid, id, uid, audio, url, link and of title-publishedAt-audio when all
\* are empty (lower candidates have no influence), and another non-empty
\* guid with the same other fields gives another id.
C13_IdPriority ==
  gOp = "buildEpisodeId" =>
    /\ gOut = sha256hex(FirstNonEmpty(
                <<gIn.guid, gIn.id, gIn.uid, gIn.audio, gIn.url, gIn.link>>,
                gIn.title \o "-" \o timeText(gIn.publishedAt) \o "-" \o gIn.audio))
    /\ gIn.guid # "" =>
         \A other \in {"urn:ep:1", "urn:ep:2", "urn:ep:3"} \ {gIn.guid} :
           buildEpisodeId([gIn EXCEPT !.guid = other]) # gOut

\* The uid decides although audio and link are there too.
C13_Witness ==
  /\ gOp = "buildEpisodeId"
  /\ gIn.guid = "" /\ gIn.id = "" /\ gIn.uid = "u-3"
  /\ gIn.audio # "" /\ gIn.link # ""
  /\ gOut = sha256hex("u-3")

\* C14: an item has the same id in every call whose page holds it, whatever
\* the offsets and limits of the calls.
C14_StableIds ==
  \A k1, k2 \in 1..Len(calls) :
    \A i1 \in 1..Len(calls[k1].result.episodes), i2 \in 1..Len(calls[k2].result.episodes) :
      calls[k1].start + i1 = calls[k2].start + i2 =>
        calls[k1].result.episodes[i1].id = calls[k2].result.episodes[i2].id

\* Two calls with different offsets both hold the second item of the feed,
\* which has no title and no identifying element.
C14_Witness ==
  /\ Len(calls) = 2
  /\ Len(ItemsOfFeed) >= 2 /\ ItemsOfFeed[2] = ItemBare
  /\ calls[1].start = 0 /\ calls[1].limit = 2
  /\ calls[2].start = 1
  /\ calls[1].result.episodes[2].id = sha256hex("Episode 2--")
  /\ calls[2].result.episodes[1].id = sha256hex("Episode 2--")

(***************************************************************************)
(* Claims on the text functions.                                           *)
(***************************************************************************)
\* C15: the texts of two adjacent <p> elements are separated in the plain
\* text by exactly two newline characters (one blank line).
C15_ParagraphBlankLine ==
  gOp = "toText" =>
    \A a, b \in ParagraphTexts :
      gIn.value = PairOfParagraphs(a, b) =>
        gOut.text = decodeHtml(a) \o "\n\n" \o decodeHtml(b)

\* The number of places of text up to position p where lit starts.
Count(text, lit, p) == Cardinality({j \in 1..p : At(text, j, lit)})

RECURSIVE OpenAfter(_, _, _, _)
\* The number of open markers of a token left unmatched by the pieces from
\* the i-th on, depth of them being open before.
OpenAfter(pieces, i, depth, token) ==
  IF i > Len(pieces) THEN depth
  ELSE IF pieces[i] = token.open THEN OpenAfter(pieces, i + 1, depth + 1, token)
  ELSE IF pieces[i] = token.close /\ depth > 0 THEN OpenAfter(pieces, i + 1, depth - 1, token)
  ELSE OpenAfter(pieces, i + 1, depth, token)

\* C17: the markup applyFormattingTokens produces is balanced for strong
\* and for em: no prefix of the output has more closing than opening tags
\* of the type, the totals are equal, every open marker gives an opening
\* tag, the markers left open are closed at the end of the output and no
\* marker is left in it (a close marker with no open one is dropped).
C17_Balanced ==
  gOp = "applyFormattingTokens" =>
    \A n \in 1..Len(FormattingTokens) :
      LET token == FormattingTokens[n]
          opening == "<" \o token.tag \o ">"
          closing == "</" \o token.tag \o ">"
          out == gOut.text
          after == IF n = 1 THEN Repeat("</em>", OpenAfter(gIn.pieces, 1, 0, FormattingTokens[2]))
                   ELSE ""
      IN  /\ \A p \in 0..Len(out) : Count(out, closing, p) <= Count(out, opening, p)
          /\ Count(out, closing, Len(out)) = Count(out, opening, Len(out))
          /\ Count(out, opening, Len(out)) = Count(gIn.value, token.open, Len(gIn.value))
          /\ EndsWith(out, Repeat(closing, OpenAfter(gIn.pieces, 1, 0, token)) \o after)
          /\ IndexOf(out, token.open) = 0 /\ IndexOf(out, token.close) = 0

\* A close marker with no open one before it, then an open marker that is
\* never closed.
C17_Witness ==
  /\ gOp = "applyFormattingTokens"
  /\ gIn.pieces = <<"__STRONG_CLOSE__", "a", "__STRONG_OPEN__", "a">>
  /\ gOut.text = "a<strong>a</strong>"

\* The places of the html where a tag starts, and the name, the end and
\* the attributes of the tag that starts at one.
TagStarts(html) == {i \in 1..Len(html) : At(html, i, "<") /\ IsLetter(CharIn(html, i + 1))}
TagName(html, i) == SubSeq(html, i + 1, RunEnd(html, i + 1, IsNameChar))
TagAttrs(html, i) ==
  AttrsFrom(html, RunEnd(html, i + 1, IsNameChar) + 1, IndexFrom(html, ">", i) - 1)
AttrValues(attribs, name) == {attribs[n].value : n \in {m \in 1..Len(attribs) : attribs[m].name = name}}

\* C18: every tag toRichHtml writes is of the allow-list and carries only
\* attributes allowed for it, every closing tag is of the allow-list, a
\* script element is gone with its content, every a carries
\* target="_blank" and rel="noopener noreferrer", and no href is left
\* whose scheme is not http, https or mailto.
C18_AllowList ==
  gOp = "toRichHtml" =>
    /\ \A i \in TagStarts(gOut.text) :
         LET name == TagName(gOut.text, i)
             attribs == TagAttrs(gOut.text, i)
         IN  /\ name \in allowedTags
             /\ \A n \in 1..Len(attribs) : attribs[n].name \in allowedAttributes(name)
             /\ name = "a" => /\ AttrValues(attribs, "target") = {"_blank"}
                              /\ AttrValues(attribs, "rel") = {"noopener noreferrer"}
             /\ \A href \in AttrValues(attribs, "href") :
                  schemeOf(href) \in {"", "http", "https", "mailto"}
    /\ \A i \in 1..Len(gOut.text) :
         At(gOut.text, i, "</") => TagName(gOut.text, i + 1) \in allowedTags
    /\ IndexOf(toLowerCase(gOut.text), "<script") = 0
    /\ IndexOf(gOut.text, "alert(1)") = 0
    /\ IndexOf(toLowerCase(gOut.text), "javascript:") = 0

\* A script element and a link with a javascript: URL: the script is gone
\* and the link is left without href.
C18_Witness ==
  /\ gOp = "toRichHtml"
  /\ gIn.value = "<script>alert(1)</script><a href=\"javascript:x\">x</a>"
  /\ gOut.text = "<a target=\"_blank\" rel=\"noopener noreferrer\">x</a>"

RECURSIVE PagesFrom(_)
PagesFrom(n) ==
  IF n > Len(calls) THEN <<>> ELSE calls[n].response.body.episodes \o PagesFrom(n + 1)

\* The client has an answer without hasMore.
ClientDone == calls # <<>> /\ ~calls[Len(calls)].response.body.pagination.hasMore

ClientPagesSound ==
  LET total == Len(ItemsOfFeed)
      all == extractEpisodesPage(feed, 0, total).episodes
      got == PagesFrom(1)
  IN  /\ \A n \in 1..Len(calls) :
           LET page == calls[n].response.body
               count == Len(page.episodes)
           IN  /\ calls[n].response.status = 200
               /\ page.pagination.cursor = calls[n].cursor
               /\ page.pagination.hasMore => page.pagination.nextCursor > calls[n].cursor
               /\ ~page.pagination.hasMore <=> calls[n].cursor + count >= total
               /\ page.pagination.nextCursor = Null <=> calls[n].cursor + count >= total
               /\ \A m \in (n + 1)..Len(calls) : calls[n].cursor + count <= calls[m].cursor
      /\ Len(got) <= total /\ got = SubSeq(all, 1, Len(got))
      /\ ClientDone => got = all
      /\ Len(calls) <= (IF total = 0 THEN 1 ELSE total)

\* C12: a client paging from cursor 0 with the returned nextCursor gets an
\* answer without hasMore after finitely many requests; every nextCursor is
\* greater than the cursor it answers, the pages do not overlap and, put
\* together, are the items of the feed, each once and in feed order; hasMore
\* is false and nextCursor null exactly when cursor + episodes.length >= total.
C12_ClientLoop == []ClientPagesSound /\ <>ClientDone

\* Three pages of one episode each, the last without hasMore.
C12_Witness ==
  /\ Len(calls) = 3
  /\ calls[1].limit = 1
  /\ calls[3].cursor = 2
  /\ ClientDone

CacheableHeader(header) == StartsWith(header, "public, s-maxage=")

\* C19: a response carries a cacheable Cache-Control header only if the
\* fetch and the parse succeeded, refresh was not requested and the entity
\* is not empty (a podcast with a non-empty field, a page with an episode),
\* and every response to a failed fetch carries no-store.
C19_CacheHeader ==
  res.sent =>
    /\ CacheableHeader(res.cacheControl) =>
         /\ outcome.state = "fulfilled" /\ ~req.parsed.threw /\ res.status = 200
         /\ \/ req.query.refresh.kind = "undefined"
            \/ toLowerCase(Trim(req.query.refresh.text)) \in {"", "0", "false", "no"}
         /\ req.endpoint = "/" =>
              /\ res.cacheControl = "public, s-maxage=172800, max-age=0"
              /\ \E field \in {"name", "author", "image", "website",
                               "description_html", "description_text"} :
                   res.body.podcast[field] # ""
         /\ req.endpoint = "/episodes" =>
              /\ res.cacheControl = "public, s-maxage=129600, max-age=0"
              /\ Len(res.body.episodes) >= 1
    /\ (outcome.state = "rejected" \/ req.parsed.threw) => res.cacheControl = "no-store"

\* A fetched feed answered with the cache header, refresh being "false".
C19_Witness ==
  /\ res.sent /\ req.endpoint = "/episodes"
  /\ req.query.refresh = Str(" False ")
  /\ CacheableHeader(res.cacheControl)
  /\ Len(res.body.episodes) = 1

\* C20: a request without url is answered with 400 and no lookup or request
\* is made for it; a request with url whose fetch failed, once no step of
\* it is left to run, has been answered with 502 and one error message.
C20_StatusOfFailure ==
  /\ (req # NoRequest /\ req.query.url.text = "") =>
       /\ res.sent /\ res.status = 400 /\ res.body.error # ""
       /\ pc = "idle" /\ nRequests = 0 /\ addresses = DnsAnswer(<<>>)
  /\ (/\ pc \in {"done", "aborted", "crashed"}
      /\ outcome.state # "fulfilled"
      /\ (res.sent \/ outcome.state = "pending")) =>
       /\ res.sent /\ res.status = 502
       /\ DOMAIN res.body = {"error"} /\ res.body.error # ""

(***************************************************************************)
(* The claims about the middleware.                                        *)
(***************************************************************************)
\* API_KEY is configured, and the request holds it in one of the two places.
KeyConfigured == gIn.apiKey.kind = "string" /\ gIn.apiKey.text # ""
KeyIncluded == gIn.header = gIn.apiKey \/ gIn.query = gIn.apiKey

\* C21: a request reaches a handler only if API_KEY is configured and the
\* request holds the key in the X-API-Key header or in api_key; a request
\* that holds the key in one of the two places is accepted; without a
\* configured API_KEY the answer is 500, and without a correct key it is 401.
C21_KeyAccepted ==
  /\ req # NoRequest => gOp = "requireApiKey" /\ gOut.next
  /\ gOp = "requireApiKey" =>
       /\ gOut.next => KeyConfigured /\ KeyIncluded
       /\ KeyConfigured /\ KeyIncluded => gOut.next
       /\ ~KeyConfigured => res.sent /\ res.status = 500
       /\ KeyConfigured /\ ~KeyIncluded => res.sent /\ res.status = 401

\* C22: no state is shared between two concurrent requests: a callback of
\* one request leaves every local of the other as it was (its redirect
\* counter, byte counter and chunk buffer included), and a request that
\* waits for its answer can still get it, whatever the callbacks of the
\* other request do in between.
C22_RequestsIsolated ==
  [][/\ peer' # peer => peer' = Locals /\ Locals' = peer
     /\ Waiting(peer') => pc' # "crashed"]_vars

\* C23: whatever the cursor and limit parameters are, /episodes calls
\* extractEpisodesPage with an integer offset >= 0 and an integer limit in
\* 1..MAX_LIMIT: an absent, non-numeric or negative cursor is 0, an absent,
\* non-numeric or below-1 limit is PER_PAGE, a limit above MAX_LIMIT is
\* MAX_LIMIT, and the response echoes both as pagination.cursor and
\* pagination.limit.
C23_EffectivePaging ==
  (req.endpoint = "/episodes" /\ res.sent /\ res.status = 200) =>
    /\ safeCursorOf(req.query.cursor) \in Nat
    /\ safeCursorOf(req.query.cursor) < Infinity
    /\ safeLimitOf(req.query.limit) \in 1..MAX_LIMIT
    /\ req.query.cursor \in {Undefined, Str(""), Str("abc"), Obj("[object Object]"),
                             Str("-3"), Str("-" \o HugeDigits)}
         => res.body.pagination.cursor = 0
    /\ req.query.limit \in {Undefined, Str("ten"), Str("-2"), Str("0")}
         => res.body.pagination.limit = PER_PAGE
    /\ req.query.limit \in {Str("51"), Str("1000"), Str(HugeDigits)}
         => res.body.pagination.limit = MAX_LIMIT
    /\ res.body.pagination.cursor = safeCursorOf(req.query.cursor)
    /\ res.body.pagination.limit = safeLimitOf(req.query.limit)

\* C24: the id of an item with a non-empty guid, whatever the shape the
\* parser gave the guid (a string, a number, an object with a "#text" that
\* is a string or a number), is the digest of that guid, before id, uid,
\* audio URL and link, and the guid field of the episode is that guid.
C24_GuidOfEveryShape ==
  (gOp = "extractEpisodesPage" /\ Trim(gIn.guid.text) # "") =>
    /\ gOut.episodes[1].guid = Trim(gIn.guid.text)
    /\ gOut.episodes[1].id = sha256hex(Trim(gIn.guid.text))

\* C25: the website of a podcast is the first element of the channel's
\* link when that is a list, the link itself when there is one, and empty
\* when the channel has neither link nor itunes:link; it is never the list.
C25_WebsiteFirstLink ==
  gOp = "extractPodcastInfo" =>
    /\ gIn.link.kind = "array" => gOut = Str(gIn.link.text)
    /\ gIn.link.kind = "string" /\ gIn.link.text # "" => gOut = gIn.link
    /\ gIn.link = Undefined /\ gIn.itunesLink = Undefined => gOut = Str("")
    /\ gOut.kind # "array"

IsBlockquoteToken(part) == part \in {BLOCKQUOTE_OPEN_TOKEN, BLOCKQUOTE_CLOSE_TOKEN}

\* The paragraph at position i stands after an open token, with no other
\* token in between.
InQuote(parts, i) ==
  \E j \in 1..(i - 1) :
    /\ parts[j] = BLOCKQUOTE_OPEN_TOKEN
    /\ \A k \in (j + 1)..(i - 1) : ~IsBlockquoteToken(parts[k])

\* What the part at position i gives: nothing for a token; the paragraph,
\* with the opening tag when it is the first paragraph after an open token
\* and with the closing tag when a token or the end of the text follows.
PartHtml(parts, i) ==
  IF IsBlockquoteToken(parts[i]) THEN ""
  ELSE (IF InQuote(parts, i) /\ IsBlockquoteToken(parts[i - 1]) THEN "<blockquote>" ELSE "")
       \o wrapParagraph(parts[i])
       \o (IF InQuote(parts, i) /\ (i = Len(parts) \/ IsBlockquoteToken(parts[i + 1]))
           THEN "</blockquote>" ELSE "")

RECURSIVE PartsHtml(_, _)
PartsHtml(parts, i) == IF i > Len(parts) THEN "" ELSE PartHtml(parts, i) \o PartsHtml(parts, i + 1)

RECURSIVE WrappedFrom(_, _)
\* The paragraphs of parts from the i-th on, wrapped, without the tokens.
WrappedFrom(parts, i) ==
  IF i > Len(parts) THEN ""
  ELSE (IF IsBlockquoteToken(parts[i]) THEN "" ELSE wrapParagraph(parts[i]))
       \o WrappedFrom(parts, i + 1)

MatchBlockquoteTag(s, i) ==
  IF At(s, i, "<blockquote>") THEN i + 11
  ELSE IF At(s, i, "</blockquote>") THEN i + 12
  ELSE 0

\* Every <blockquote> of html stands outside every other, and each is closed.
BlockquotesFlat(html) ==
  LET opens == {i \in 1..Len(html) : At(html, i, "<blockquote>")}
      closes == {i \in 1..Len(html) : At(html, i, "</blockquote>")}
      Before(set, i) == Cardinality({j \in set : j < i})
  IN  /\ Cardinality(opens) = Cardinality(closes)
      /\ \A o \in opens : Before(opens, o) = Before(closes, o)
      /\ \A c \in closes : Before(opens, c) = Before(closes, c) + 1

InDescription(body) == IF body = "" THEN "" ELSE DESCRIPTION_OPEN \o body \o "</div>"

\* C26: buildHtmlFromPlainText on every sequence of paragraphs and
\* blockquote tokens: every paragraph that is no token is in the output
\* once and in the order of the input; no <blockquote> stands inside
\* another; the paragraphs after an open token are one <blockquote>, which
\* the next token (an open token too) or the end of the text closes; tokens
\* with no paragraph in between give no element.
C26_BlockquoteRegions ==
  gOp = "buildHtmlFromPlainText" =>
    /\ ReplaceAll(gOut.html, MatchBlockquoteTag, ToNothing)
         = InDescription(WrappedFrom(gIn.parts, 1))
    /\ BlockquotesFlat(gOut.html)
    /\ gOut.html = InDescription(PartsHtml(gIn.parts, 1))

\* An open token after the paragraphs of an open blockquote, and a
\* blockquote the end of the text closes.
C26_Witness ==
  /\ gOp = "buildHtmlFromPlainText"
  /\ gIn.parts = <<BLOCKQUOTE_OPEN_TOKEN, "Hi\nthere", BLOCKQUOTE_OPEN_TOKEN, "Hi\nthere">>
  /\ gOut.html = InDescription("<blockquote><p>Hi<br />there</p></blockquote>"
                                 \o "<blockquote><p>Hi<br />there</p></blockquote>")

\* The tags the functions write themselves.
EmittedTags ==
  {DESCRIPTION_OPEN, "</div>", "<p>", "</p>", "<br />", "<strong>", "</strong>",
   "<em>", "</em>", "<blockquote>", "</blockquote>", "</button>"}

IsTimeChar(c) == IsDigit(c) \/ c = ":"

BUTTON_OPEN == "<button class=\"timestamp\" type=\"button\" data-timestamp=\""

\* One of the tags the functions write, from position i: its last position.
\* The opening tag of a button counts when its data-timestamp holds digits
\* and colons only.
MatchEmittedTag(s, i) ==
  IF ~At(s, i, "<") THEN 0
  ELSE IF At(s, i, BUTTON_OPEN)
  THEN Val({IF At(s, value + 1, "\">") THEN value + 2 ELSE 0
            : value \in {RunEnd(s, i + Len(BUTTON_OPEN), IsTimeChar)}})
  ELSE Val({IF tags = {} THEN 0 ELSE i + Len(CHOOSE tag \in tags : TRUE) - 1
            : tags \in {{tag \in EmittedTags : At(s, i, tag)}}})

EscapedEntities == {"&amp;", "&lt;", "&gt;", "&quot;", "&#39;"}

\* A text in which every character escapeHtml replaces is replaced.
IsEscaped(text) ==
  \A k \in 1..Len(text) :
    /\ CharAt(text, k) \notin {"<", ">", "\"", "'"}
    /\ CharAt(text, k) = "&" => \E entity \in EscapedEntities : At(text, k, entity)

\* C30: the HTML buildEpisodeDescriptionHtml builds from the fallback text
\* (the sanitized HTML being empty) has no markup of the feed: but for the
\* tags the function writes itself (the wrapper div, p, br, strong, em,
\* blockquote and the timestamp button, whose data-timestamp holds digits
\* and colons only), every "<", ">", "&", double and single quote of it
\* is escaped.
C30_FallbackEscaped ==
  (gOp = "buildEpisodeDescriptionHtml" /\ Trim(gIn.html) = "") =>
    IsEscaped(ReplaceAll(gOut.html, MatchEmittedTag, ToNothing))

\* A fallback text with every character to escape and a time after a quote.
C30_Witness ==
  /\ gOp = "buildEpisodeDescriptionHtml"
  /\ gIn.html = ""
  /\ gIn.fallbackText = "it's '9:15:30\" >> <b"
  /\ gOut.html = DESCRIPTION_OPEN \o "<p>it&#39;s &#39;" \o ToButton("9:15:30")
                   \o "&quot; &gt;&gt; &lt;b</p></div>"

\* C27: cleanEmptyHtml terminates (the loop runs at most once for every
\* element it can remove, and once more) and its output is a fixpoint: no
\* element of the listed tags with only blanks, &nbsp; and line breaks is
\* left, nested ones included, no two line breaks stand in a row, and
\* cleanEmptyHtml leaves the output as it is.
C27_CleanFixpoint ==
  gOp = "cleanEmptyHtml" =>
    /\ gIn.passes <= Len(gIn.html) \div 7 + 1
    /\ \A i \in 1..Len(gOut.html) : MatchEmptyTag(gOut.html, i) = 0
    /\ \A i \in 1..Len(gOut.html) : MatchBrs(gOut.html, i) = 0
    /\ cleanEmptyHtml(gOut.html) = gOut.html

\* An element that is empty only once the elements inside it are removed,
\* which takes a second pass, and line breaks in a row after it.
C27_Witness ==
  /\ gOp = "cleanEmptyHtml"
  /\ gIn.pieces = <<"<div> <p>&nbsp;</p><br /></div>", "<br>  ">>
  /\ gIn.passes = 3
  /\ gOut.html = "<br>"

\* A button as highlightTimestampsInHtml writes it, from position i: its
\* last position. The time in the attribute is the time in the content.
MatchInsertedButton(s, i) ==
  IF ~At(s, i, BUTTON_OPEN) THEN 0
  ELSE Val({IF value >= i + Len(BUTTON_OPEN)
               /\ At(s, value + 1,
                     "\">" \o SubSeq(s, i + Len(BUTTON_OPEN), value) \o "</button>")
            THEN value + 2 + (value - (i + Len(BUTTON_OPEN)) + 1) + Len("</button>")
            ELSE 0
            : value \in {RunEnd(s, i + Len(BUTTON_OPEN), IsTimeChar)}})

\* The time a written button holds.
InsertedTime(match) ==
  SubSeq(match, Len(BUTTON_OPEN) + 1,
         Len(BUTTON_OPEN) + (Len(match) - Len(BUTTON_OPEN) - Len("\">") - Len("</button>")) \div 2)

\* x and y have the same tag segments in the same order.
SameTags(x, y) ==
  \E xs \in {tagStarts(x)} : \E ys \in {tagStarts(y)} :
    /\ Len(xs) = Len(ys)
    /\ \A k \in 1..Len(xs) : tagPart(x, xs, k) = tagPart(y, ys, k)

RECURSIVE HighlightEach(_, _)
\* The pieces from the i-th on, a marker as it is and every other piece
\* highlighted on its own.
HighlightEach(pieces, i) ==
  IF i > Len(pieces) THEN ""
  ELSE (IF pieces[i] \in MarkerPieces THEN pieces[i]
        ELSE highlightTimestampsInHtml(pieces[i])) \o HighlightEach(pieces, i + 1)

C29_TextNormalized ==
  gOp = "toText" =>
    /\ \A i \in 1..Len(gOut.text) :
         /\ At(gOut.text, i, "<") => IndexFrom(gOut.text, ">", i + 1) = 0
         /\ ~At(gOut.text, i, "\r")
         /\ ~At(gOut.text, i, "\n\n\n")
    /\ Trim(gOut.text) = gOut.text

\* Carriage returns alone and before newlines, blanks before a newline and
\* four line ends in a row, with blanks at both ends.
C29_Witness ==
  /\ gOp = "toText"
  /\ gIn.value = " \r x \r\n\r\r\n \t\n y\r"
  /\ gOut.text = "x\n\n y"
====
